---------------------------- MODULE Spec2Model ----------------------------
(***************************************************************************)
(* A model of sacs2abaqus: the fixed-column SACS record parser             *)
(* (sacs_cards.py), the field decoder and quad reordering (helpers.py)     *)
(* and the Abaqus deck writer (inp_writer.py).                             *)
(*                                                                         *)
(* Text is modelled as sequences of one-character strings, so that column  *)
(* slices, strip() and replace() are computed as the code computes them.   *)
(* Floats are modelled as decimals m * 10^e of eight significant digits    *)
(* (a result that needs more is rounded).  Python dicts are modelled as    *)
(* insertion-ordered sequences of <<key, value>> pairs.                    *)
(***************************************************************************)
EXTENDS Integers, Sequences, FiniteSets, TLC

VARIABLES
    gf_arg,     \* GetFloat: the field handed to the call
    gf_ret,     \* GetFloat: the value returned
    gf_pc,      \* GetFloat: "idle" | "ready" | "returned" | "raised"
    oj_arg,     \* OrderJoints: the list of four joints handed to the call
    oj_ret,     \* OrderJoints: [exc, jlist] returned
    oj_again,   \* OrderJoints: [exc, jlist] returned for its own output
    oj_pc,      \* OrderJoints: "idle" | "ready" | "returned" | "reapplied"
    input,      \* the lines of the file handed to parse_sacs_file
    pos,        \* the number of lines the parse loop has consumed
    calls,      \* the number of calls of parse_sacs_file in this process
    write_secondary,    \* the flag handed to write_abaqus_input
    sacs,       \* the SacsStructure stru: the class-level containers and
                \* the attributes of the instance of the current call
    pc,         \* the position of the conversion
    exc,        \* the exception that ended it: [type, in]
    files,      \* the files written: [inp, nmap, elmap, loads, iges]
    log,        \* the errors caught and logged
    dict,       \* the value returned by to_dict
    basic,      \* the call of LCOMB.to_basic: [pc, lcm, exc, case, warnings]
    geo_a,      \* geom3: the first vector handed to Vector3.cross or to
                \* the construction of a frame (none once it is rotated)
    geo_b,      \* geom3: the second vector handed to it
    geo_cross,  \* geom3: the value returned by Vector3.cross
    geo_first,  \* geom3: the frame [exc, x, y, z] as it was constructed
    geo_csys,   \* geom3: the frame after the rotations
    geo_angle,  \* geom3: the angle rotated_about_x is called with
    geo_turns,  \* geom3: the number of calls of rotated_about_x so far
    geo_op,     \* geom3: the operation called last: "none" | "cross" |
                \* "BeamCSys" | "from_sacs_points" | "rotated_about_x"
    geo_pc      \* geom3: "idle" | "ready" | "returned" | "raised"

gf_vars == <<gf_arg, gf_ret, gf_pc>>
oj_vars == <<oj_arg, oj_ret, oj_again, oj_pc>>
pl_vars == <<input, pos, calls, write_secondary, sacs, pc, exc, files, log,
             dict, basic>>
geo_vars == <<geo_a, geo_b, geo_cross, geo_first, geo_csys, geo_angle,
              geo_turns, geo_op, geo_pc>>
vars == <<gf_vars, oj_vars, pl_vars, geo_vars>>

---------------------------------------------------------------------------
(* Text helpers                                                            *)

Digits == {"0", "1", "2", "3", "4", "5", "6", "7", "8", "9"}

DigitVal(c) ==
    CASE c = "0" -> 0 [] c = "1" -> 1 [] c = "2" -> 2 [] c = "3" -> 3
      [] c = "4" -> 4 [] c = "5" -> 5 [] c = "6" -> 6 [] c = "7" -> 7
      [] c = "8" -> 8 [] c = "9" -> 9

\* str.strip(): removes leading and trailing blanks
RECURSIVE LStrip(_)
LStrip(s) ==
    IF Len(s) > 0 /\ s[1] = " " THEN LStrip(Tail(s)) ELSE s

RECURSIVE RStrip(_)
RStrip(s) ==
    IF Len(s) > 0 /\ s[Len(s)] = " " THEN RStrip(SubSeq(s, 1, Len(s) - 1)) ELSE s

Strip(s) == RStrip(LStrip(s))

\* str.replace("-", "E-")
RECURSIVE ReplaceMinus(_)
ReplaceMinus(s) ==
    IF s = <<>> THEN <<>>
    ELSE (IF s[1] = "-" THEN <<"E", "-">> ELSE <<s[1]>>) \o ReplaceMinus(Tail(s))

\* The index of the first character of s that is in cs, 0 if there is none
RECURSIVE FindFirst(_, _, _)
FindFirst(s, cs, i) ==
    IF i > Len(s) THEN 0
    ELSE IF s[i] \in cs THEN i
    ELSE FindFirst(s, cs, i + 1)

---------------------------------------------------------------------------
(* Python numbers: [ty |-> "float", m |-> mantissa, e |-> exponent] is the  *)
(* float m * 10^e, with m not divisible by 10 (0.0 is m = 0, e = 0).       *)
(* False (the "no value" GetFloat returns), None and an attribute that was *)
(* never assigned are values of their own type; in arithmetic False is 0.  *)

False == [ty |-> "bool", m |-> 0, e |-> 0]
None == [ty |-> "NoneType", m |-> 0, e |-> 0]
Unset == [ty |-> "unset", m |-> 0, e |-> 0]

RECURSIVE Pow10(_)
Pow10(k) == IF k <= 0 THEN 1 ELSE 10 * Pow10(k - 1)

RECURSIVE Norm(_, _)
Norm(m, e) ==
    IF m = 0 THEN [ty |-> "float", m |-> 0, e |-> 0]
    ELSE IF m % 10 = 0 THEN Norm(m \div 10, e + 1)
    ELSE [ty |-> "float", m |-> m, e |-> e]

Abs(n) == IF n < 0 THEN -n ELSE n

\* The decimal m * 10^e, normalised
Float(m, e) == IF m < 0
               THEN [Norm(-m, e) EXCEPT !.m = -@]
               ELSE Norm(m, e)

Zero == Float(0, 0)

\* Number of decimal digits of a positive integer
RECURSIVE NDigits(_)
NDigits(n) == IF n < 10 THEN 1 ELSE 1 + NDigits(n \div 10)

MinOf(x, y) == IF x < y THEN x ELSE y

\* A float keeps a bounded number of significant digits.  A mantissa is kept
\* below Word = HalfWord^2, so that the partial products of two mantissas
\* stay within the integers of the checker; a result that needs more digits
\* is rounded to the nearest mantissa (a double keeps 15 to 17 digits, and
\* every comparison of geom3.py allows for 1e-6).  A result that fits is exact.
HalfWord == Pow10(4)

Word == HalfWord * HalfWord

RECURSIVE RoundPos(_, _)
RoundPos(m, e) ==
    IF m < Word THEN Norm(m, e) ELSE RoundPos((m + 5) \div 10, e + 1)

Rounded(m, e) ==
    IF m < 0 THEN [RoundPos(-m, e) EXCEPT !.m = -@] ELSE RoundPos(m, e)

\* (hi * Word + lo) * 10^e, for hi, lo < Word, with the sign neg
MulJoin(hi, lo, d, e, neg) ==
    IF hi = 0 THEN Float(IF neg THEN -lo ELSE lo, e)
    ELSE Float((IF neg THEN -1 ELSE 1)
                 * (hi * (Word \div Pow10(d)) + lo \div Pow10(d)
                    + (IF (lo \div Pow10(d - 1)) % 10 >= 5 THEN 1 ELSE 0)),
               e + d)

MulSum(h, low, e, neg) ==
    MulJoin(h + low \div Word, low % Word, NDigits(h + low \div Word), e, neg)

MulCross(a1, a0, b1, b0, c, e, neg) ==
    MulSum(a1 * b1 + c \div HalfWord, (c % HalfWord) * HalfWord + a0 * b0,
           e, neg)

MulHalves(a1, a0, b1, b0, e, neg) ==
    MulCross(a1, a0, b1, b0, a1 * b0 + a0 * b1, e, neg)

\* Python arithmetic treats False as 0 and always yields a float
Mul(a, b) ==
    MulHalves(Abs(a.m) \div HalfWord, Abs(a.m) % HalfWord,
              Abs(b.m) \div HalfWord, Abs(b.m) % HalfWord,
              a.e + b.e, (a.m < 0) # (b.m < 0))

\* m / 10^n rounded to the nearest integer
ShiftRight(m, n) ==
    IF n = 0 THEN m
    ELSE IF n > 9 THEN 0
    ELSE IF m < 0 THEN -((-m + Pow10(n) \div 2) \div Pow10(n))
    ELSE (m + Pow10(n) \div 2) \div Pow10(n)

\* hi * 10^(d + e) + lo * 10^e: hi is raised by k digits and lo lowered by
\* the d - k digits that are left
AddShifted(hi, lo, d, k, e) ==
    Rounded(hi * Pow10(k) + ShiftRight(lo, d - k), e + d - k)

AddAligned(hi, lo, d, e) ==
    AddShifted(hi, lo, d, MinOf(d, 9 - NDigits(Abs(hi))), e)

Add(a, b) ==
    IF a.m = 0 THEN Float(b.m, b.e)
    ELSE IF b.m = 0 THEN Float(a.m, a.e)
    ELSE IF a.e >= b.e THEN AddAligned(a.m, b.m, a.e - b.e, b.e)
    ELSE AddAligned(b.m, a.m, b.e - a.e, a.e)

Neg(a) == Float(-a.m, a.e)

Sub(a, b) == Add(a, Neg(b))

\* a < b for positive decimals, comparing orders of magnitude first so that
\* the mantissas are only aligned when they are of the same magnitude
PosLt(a, b) ==
    LET la == NDigits(a.m) + a.e
        lb == NDigits(b.m) + b.e
        lo == MinOf(a.e, b.e)
    IN  IF la # lb THEN la < lb
        ELSE a.m * Pow10(a.e - lo) < b.m * Pow10(b.e - lo)

Lt(a, b) ==
    IF a.m <= 0 /\ b.m > 0 THEN TRUE
    ELSE IF a.m < 0 /\ b.m = 0 THEN TRUE
    ELSE IF a.m >= 0 /\ b.m <= 0 THEN FALSE
    ELSE IF a.m > 0 THEN PosLt(a, b)
    ELSE PosLt(Neg(b), Neg(a))

\* Python ==: False == 0.0 is True
NumEq(a, b) == a.m = b.m /\ a.e = b.e

\* Python truthiness of a float or of False
Truthy(a) == a.m # 0

---------------------------------------------------------------------------
(* helpers.py: float() and GetFloat                                        *)

AllDigits(s) == \A i \in 1..Len(s) : s[i] \in Digits

RECURSIVE DigitsToInt(_)
DigitsToInt(s) ==
    IF s = <<>> THEN 0
    ELSE 10 * DigitsToInt(SubSeq(s, 1, Len(s) - 1)) + DigitVal(s[Len(s)])

Signed(neg, n) == IF neg THEN -n ELSE n

\* Python float(str) on the decimal grammar
\*   [sign] (digits [. [digits]] | . digits) [(e|E) [sign] digits]
\* with surrounding blanks ignored.  The result is [ok, exc, val]; ok = FALSE
\* is the exception exc, a ValueError.  The text is taken apart in steps: the sign, the exponent
\* marker, the decimal point, then the digits.
FloatOfDigits(neg, ipart, fpart, hasExp, eNeg, edig) ==
    IF /\ AllDigits(ipart) /\ AllDigits(fpart)
       /\ Len(ipart) + Len(fpart) > 0
       /\ (~hasExp \/ (Len(edig) > 0 /\ AllDigits(edig)))
    THEN [ok |-> TRUE, exc |-> "none",
          val |-> Float(Signed(neg, DigitsToInt(ipart \o fpart)),
                        (IF hasExp THEN Signed(eNeg, DigitsToInt(edig)) ELSE 0)
                            - Len(fpart))]
    ELSE [ok |-> FALSE, exc |-> "ValueError", val |-> False]

FloatOfParts(neg, mant, dot, hasExp, expo) ==
    FloatOfDigits(neg,
                  IF dot = 0 THEN mant ELSE SubSeq(mant, 1, dot - 1),
                  IF dot = 0 THEN <<>> ELSE SubSeq(mant, dot + 1, Len(mant)),
                  hasExp,
                  Len(expo) > 0 /\ expo[1] = "-",
                  IF Len(expo) > 0 /\ expo[1] \in {"+", "-"}
                  THEN Tail(expo) ELSE expo)

FloatOfMantissa(neg, mant, hasExp, expo) ==
    FloatOfParts(neg, mant, FindFirst(mant, {"."}, 1), hasExp, expo)

FloatOfSplit(neg, body, ePos) ==
    FloatOfMantissa(neg,
                    IF ePos = 0 THEN body ELSE SubSeq(body, 1, ePos - 1),
                    ePos # 0,
                    IF ePos = 0 THEN <<>> ELSE SubSeq(body, ePos + 1, Len(body)))

FloatOfBody(neg, body) ==
    FloatOfSplit(neg, body, FindFirst(body, {"E", "e"}, 1))

FloatOfStripped(t) ==
    FloatOfBody(Len(t) > 0 /\ t[1] = "-",
                IF Len(t) > 0 /\ t[1] \in {"+", "-"} THEN Tail(t) ELSE t)

PyFloat(str) == FloatOfStripped(Strip(str))

\* prefix, s = ("-", s[1:]) if s.startswith('-') else ("", s)
\* s = prefix + s.replace("-", "E-")
RepairExponent(s) ==
    IF Len(s) > 0 /\ s[1] = "-"
    THEN <<"-">> \o ReplaceMinus(Tail(s))
    ELSE ReplaceMinus(s)

\* return False with the value a failure is answered by written 0.0
ValueOrZero(r) == IF r.ok THEN r.val ELSE Zero

\* try: return float(...)  except ValueError: return False
ValueOrFalse(r) == IF r.ok THEN r.val ELSE False

\* except ValueError: an exception of another class leaves GetFloat
Uncaught(r) == ~r.ok /\ r.exc # "ValueError"

GetFloat(s0) == ValueOrFalse(PyFloat(RepairExponent(Strip(s0))))

---------------------------------------------------------------------------
(* geom3.py: Vector3                                                       *)

Vector3(x, y, z) == [x |-> x, y |-> y, z |-> z]

VSub(a, b) == Vector3(Sub(a.x, b.x), Sub(a.y, b.y), Sub(a.z, b.z))

dot(a, b) == Add(Add(Mul(a.x, b.x), Mul(a.y, b.y)), Mul(a.z, b.z))

\* cross with the two operands exchanged
crossOfSwapped(a, b) ==
    Vector3(Sub(Mul(b.y, a.z), Mul(b.z, a.y)),
            Sub(Mul(b.z, a.x), Mul(b.x, a.z)),
            Sub(Mul(b.x, a.y), Mul(b.y, a.x)))

cross(a, b) ==
    Vector3(Sub(Mul(a.y, b.z), Mul(a.z, b.y)),
            Sub(Mul(a.z, b.x), Mul(a.x, b.z)),
            Sub(Mul(a.x, b.y), Mul(a.y, b.x)))

\* length() = sqrt(dot): zero exactly when the vector is the zero vector
IsZeroLength(a) == a.x.m = 0 /\ a.y.m = 0 /\ a.z.m = 0

---------------------------------------------------------------------------
(* helpers.py: OrderJoints                                                 *)

as_vector(j) == Vector3(j.x, j.y, j.z)

\* cos(angle between u and v) < cos(angle between u and w), for non-zero
\* u, v, w: (u.v)/|v| < (u.w)/|w|, decided on the squares (signs apart)
CosLtSquares(a, b, l, r) ==
    IF a.m < 0 /\ b.m >= 0 THEN TRUE
    ELSE IF a.m >= 0 /\ b.m < 0 THEN FALSE
    ELSE IF a.m >= 0 THEN Lt(l, r)
    ELSE Lt(r, l)

CosLtDots(a, b, p, q) ==
    CosLtSquares(a, b, Mul(Mul(a, a), q), Mul(Mul(b, b), p))

CosLt(u, v, w) == CosLtDots(dot(u, v), dot(u, w), dot(v, v), dot(w, w))

\* OrderJoints with the exchange written [0, 1, 3, 3]: the fourth joint twice
OrderJointsRepeatsLast(jlist) ==
    IF \/ IsZeroLength(VSub(as_vector(jlist[2]), as_vector(jlist[1])))
       \/ IsZeroLength(VSub(as_vector(jlist[3]), as_vector(jlist[1])))
       \/ IsZeroLength(VSub(as_vector(jlist[4]), as_vector(jlist[1])))
    THEN [exc |-> "ZeroDivisionError", jlist |-> <<>>]
    ELSE IF CosLt(VSub(as_vector(jlist[2]), as_vector(jlist[1])),
                  VSub(as_vector(jlist[3]), as_vector(jlist[1])),
                  VSub(as_vector(jlist[4]), as_vector(jlist[1])))
    THEN [exc |-> "none", jlist |-> <<jlist[1], jlist[2], jlist[4], jlist[4]>>]
    ELSE [exc |-> "none", jlist |-> jlist]

\* OrderJoints with the test written j3_ang >= j4_ang
OrderJointsOnTie(jlist) ==
    IF \/ IsZeroLength(VSub(as_vector(jlist[2]), as_vector(jlist[1])))
       \/ IsZeroLength(VSub(as_vector(jlist[3]), as_vector(jlist[1])))
       \/ IsZeroLength(VSub(as_vector(jlist[4]), as_vector(jlist[1])))
    THEN [exc |-> "ZeroDivisionError", jlist |-> <<>>]
    ELSE IF ~CosLt(VSub(as_vector(jlist[2]), as_vector(jlist[1])),
                   VSub(as_vector(jlist[4]), as_vector(jlist[1])),
                   VSub(as_vector(jlist[3]), as_vector(jlist[1])))
    THEN [exc |-> "none", jlist |-> <<jlist[1], jlist[2], jlist[4], jlist[3]>>]
    ELSE [exc |-> "none", jlist |-> jlist]

\* acos is strictly decreasing, so j3_ang > j4_ang iff cos(j3) < cos(j4).
\* normalise() and the divisions by length() raise ZeroDivisionError on a
\* zero vector.
OrderJoints(jlist) ==
    LET j1 == as_vector(jlist[1])
        j2 == as_vector(jlist[2])
        j3 == as_vector(jlist[3])
        j4 == as_vector(jlist[4])
        local_x == VSub(j2, j1)
    IN  IF IsZeroLength(local_x) \/ IsZeroLength(VSub(j3, j1))
           \/ IsZeroLength(VSub(j4, j1))
        THEN [exc |-> "ZeroDivisionError", jlist |-> <<>>]
        ELSE IF CosLt(local_x, VSub(j3, j1), VSub(j4, j1))
        THEN [exc |-> "none",
              jlist |-> <<jlist[1], jlist[2], jlist[4], jlist[3]>>]
        ELSE [exc |-> "none", jlist |-> jlist]

---------------------------------------------------------------------------
(* Float division and square root, rounded as the products are             *)

\* The digits of (q * den + r) / den, until the mantissa is full or the
\* division is exact
RECURSIVE DivDigits(_, _, _, _)
DivDigits(q, r, den, e) ==
    IF q >= Word \/ r = 0 THEN RoundPos(q, e)
    ELSE DivDigits(q * 10 + (r * 10) \div den, (r * 10) % den, den, e - 1)

DivSigned(q, neg) == IF neg THEN [q EXCEPT !.m = -@] ELSE q

\* a / b for b # 0.0
Div(a, b) ==
    DivSigned(DivDigits(Abs(a.m) \div Abs(b.m), Abs(a.m) % Abs(b.m),
                        Abs(b.m), a.e - b.e),
              (a.m < 0) # (b.m < 0))

FAbs(a) == Float(Abs(a.m), a.e)

One == Float(1, 0)

\* Newton's iteration for the square root of a > 0, started above the root
\* and stopped when it no longer decreases
RECURSIVE Newton(_, _)
NewtonStep(a, x, next) == IF Lt(next, x) THEN Newton(a, next) ELSE x

Newton(a, x) == NewtonStep(a, x, Mul(Float(5, -1), Add(x, Div(a, x))))

\* The start of the iteration for a of order of magnitude k (10^k <= a <
\* 10^(k+1)): the root is below 3.2 * 10^(k/2) for an even k and below
\* 10^((k+1)/2) for an odd one
SqrtAbove(k) ==
    IF k % 2 = 0 THEN Float(32, k \div 2 - 1) ELSE Float(1, (k + 1) \div 2)

\* math.sqrt
Sqrt(a) ==
    IF a.m = 0 THEN Zero
    ELSE Newton(a, SqrtAbove(NDigits(a.m) + a.e - 1))

\* math.cos(math.radians(angle)) and math.sin(math.radians(angle)) for the
\* angles (in degrees) the frames are turned by, as the doubles they are
Cos(angle) ==
    CASE angle = 0 -> One
      [] angle = 30 -> Float(86602540, -8)
      [] angle = 45 -> Float(70710678, -8)
      [] angle = 90 -> Float(61232340, -24)
      [] angle = -90 -> Float(61232340, -24)
      [] angle = 180 -> Float(-1, 0)

Sin(angle) ==
    CASE angle = 0 -> Zero
      [] angle = 30 -> Float(5, -1)
      [] angle = 45 -> Float(70710678, -8)
      [] angle = 90 -> One
      [] angle = -90 -> Float(-1, 0)
      [] angle = 180 -> Float(12246468, -23)

---------------------------------------------------------------------------
(* geom3.py: Vector3 (continued) and BeamCSys.  A frame is [exc, x, y, z]; *)
(* exc is the ZeroDivisionError of normalise() on a vector of length 0.    *)

Vector3_add(a, b) == Vector3(Add(a.x, b.x), Add(a.y, b.y), Add(a.z, b.z))

\* __mul__ and __rmul__
Vector3_mul(a, s) == Vector3(Mul(a.x, s), Mul(a.y, s), Mul(a.z, s))

Vector3_neg(a) == Vector3(Neg(a.x), Neg(a.y), Neg(a.z))

length(a) == Sqrt(dot(a, a))

\* self / self.length() = (1.0 / self.length()) * self, for length # 0
normalise(a) == Vector3_mul(a, Div(One, length(a)))

geom_tol == Float(1, -6)

\* abs(a - b) <= tol
Within(a, b) == ~Lt(geom_tol, FAbs(Sub(a, b)))

\* Vector3.__eq__
Vector3_eq(a, b) == Within(a.x, b.x) /\ Within(a.y, b.y) /\ Within(a.z, b.z)

NoVector == Vector3(Zero, Zero, Zero)

ZeroDivision == [exc |-> "ZeroDivisionError",
                 x |-> NoVector, y |-> NoVector, z |-> NoVector]

\* self.x = x.normalise(); self.y = y.normalise(); self.z = z.normalise()
Normalised(x, y, z) ==
    IF IsZeroLength(x) \/ IsZeroLength(y) \/ IsZeroLength(z) THEN ZeroDivision
    ELSE [exc |-> "none",
          x |-> normalise(x), y |-> normalise(y), z |-> normalise(z)]

\* BeamCSys(x, y, z): z is x.cross(y) when it is None
BeamCSys_init(x, y, z) == Normalised(x, y, IF z = None THEN cross(x, y) ELSE z)

\* The non-vertical branch once y is known: z = x.cross(y).normalise()
Inclined(x, y) ==
    IF IsZeroLength(cross(x, y)) THEN ZeroDivision
    ELSE BeamCSys_init(x, y, normalise(cross(x, y)))

\* Either branch once the trial z is known: y = z.cross(x).normalise()
Framed(x, z, vertical) ==
    IF IsZeroLength(cross(z, x)) THEN ZeroDivision
    ELSE IF vertical THEN BeamCSys_init(x, normalise(cross(z, x)), z)
    ELSE Inclined(x, normalise(cross(z, x)))

\* if abs(abs(x.z) - 1) <= tol: z = Vector3(0, 1, 0)  else: z = Vector3(0, 0, 1)
About(x) ==
    IF Within(FAbs(x.z), One)
    THEN Framed(x, Vector3(Zero, One, Zero), TRUE)
    ELSE Framed(x, Vector3(Zero, Zero, One), FALSE)

\* BeamCSys.from_sacs_points
from_sacs_points(start, end) ==
    IF IsZeroLength(VSub(end, start)) THEN ZeroDivision
    ELSE About(normalise(VSub(end, start)))

\* rotated_about_x turning the other way: y' = y cos - z sin, z' = z cos + y sin
rotated_the_other_way(self, angle) ==
    BeamCSys_init(self.x,
        VSub(Vector3_mul(self.y, Cos(angle)),
             Vector3_mul(self.z, Sin(angle))),
        Vector3_add(Vector3_mul(self.z, Cos(angle)),
                    Vector3_mul(self.y, Sin(angle))))

\* BeamCSys.rotated_about_x
rotated_about_x(self, angle) ==
    BeamCSys_init(self.x,
        Vector3_add(Vector3_mul(self.y, Cos(angle)),
                    Vector3_mul(self.z, Sin(angle))),
        VSub(Vector3_mul(self.z, Cos(angle)),
             Vector3_mul(self.y, Sin(angle))))

\* BeamCSys.__eq__
BeamCSys_eq(a, b) ==
    Vector3_eq(a.x, b.x) /\ Vector3_eq(a.y, b.y) /\ Vector3_eq(a.z, b.z)


---------------------------------------------------------------------------
(* Lines, slices and dicts                                                 *)

LineWidth == 80

\* Python l[a:b] on a sequence (0-based, b exclusive)
Slice(l, a, b) == SubSeq(l, a + 1, b)

\* Python l[i]
At(l, i) == l[i + 1]

Blanks(n) == [i \in 1..n |-> " "]

\* l.rstrip() + " " * (80 - len(l.rstrip()))
Pad80(l) ==
    LET r == RStrip(l)
    IN  IF Len(r) >= LineWidth THEN r ELSE r \o Blanks(LineWidth - Len(r))

\* An insertion-ordered dict: a sequence of [k |-> key, v |-> value]
Has(d, key) == \E i \in 1..Len(d) : d[i].k = key

IndexOf(d, key) == CHOOSE i \in 1..Len(d) : d[i].k = key

Get(d, key) == d[IndexOf(d, key)].v

Put(d, key, val) ==
    IF Has(d, key) THEN [d EXCEPT ![IndexOf(d, key)].v = val]
    ELSE Append(d, [k |-> key, v |-> val])

Keys(d) == [i \in 1..Len(d) |-> d[i].k]

\* GetFloat(field) * 10^k: the unit conversion applied at decode time
Scaled(field, k) == Mul(GetFloat(field), Float(1, k))

\* x or None
OrNone(x) == IF Truthy(x) THEN x ELSE None

\* x or 0
OrZero(x) == IF Truthy(x) THEN x ELSE [ty |-> "int", m |-> 0, e |-> 0]

\* int(x): truncation toward zero
IntOf(x) ==
    IF x.e >= 0 THEN x.m * Pow10(x.e)
    ELSE IF x.m >= 0 THEN x.m \div Pow10(-x.e)
    ELSE -((-x.m) \div Pow10(-x.e))

\* [f == "1" for f in l[a:b]]
Fixity(l, a, b) == [i \in 1..(b - a) |-> l[a + i] = "1"]

\* An attribute holding text that the constructor did not assign
NoAttr == <<"<unset>">>

---------------------------------------------------------------------------
(* helpers.py: memberMap                                                   *)

memberMapKeys ==
    {<<"T", "U", "B">>, <<"W", "F", " ">>, <<"W", "F", "C">>, <<"P", "G", "B">>, <<"B", "O", "X">>, <<"P", "R", "I">>, <<"P", "L", "G">>, <<"T", "E", "E">>, <<"C", "H", "L">>, <<"A", "N", "G">>,
     <<"C", "O", "N">>, <<"S", "C", "Y">>, <<"S", "B", "X">>}

memberMap(code) ==
    CASE code = <<"T", "U", "B">> -> "PIPE"
      [] code = <<"W", "F", " ">> -> "I"
      [] code = <<"W", "F", "C">> -> "I"
      [] code = <<"P", "G", "B">> -> "BOX"
      [] code = <<"B", "O", "X">> -> "BOX"
      [] code = <<"P", "R", "I">> -> "ARBITRARY"
      [] code = <<"P", "L", "G">> -> "I"
      [] code = <<"T", "E", "E">> -> "TEE"
      [] code = <<"C", "H", "L">> -> "CHL"
      [] code = <<"A", "N", "G">> -> "L"
      [] code = <<"C", "O", "N">> -> "CON"
      [] code = <<"S", "C", "Y">> -> "PIPE"
      [] code = <<"S", "B", "X">> -> "BOX"

---------------------------------------------------------------------------
(* sacs_cards.py: the card classes.  A section's sect is "False" for the   *)
(* Python value False.                                                     *)

LENGTH_TOL == Float(1, -6)

SECT_from_grup(grup) ==
    [cls |-> "SECT", ID |-> grup.ID, sect |-> "PIPE",
     AX |-> None, J |-> None, IY |-> None, IZ |-> None,
     A |-> grup.OD, B |-> grup.thickness, C |-> False,
     D |-> Unset, E |-> Unset, F |-> Unset]

SECT(l) ==
    LET code == Slice(l, 15, 18)
        sect == IF code \in memberMapKeys THEN memberMap(code) ELSE "False"
        k    == IF sect = "PRI" THEN -4 ELSE -2
    IN  IF code \in memberMapKeys
        THEN [cls |-> "SECT", ID |-> Strip(Slice(l, 5, 12)), sect |-> sect,
              AX |-> OrNone(Scaled(Slice(l, 18, 24), -4)),
              J  |-> OrNone(Scaled(Slice(l, 24, 32), -8)),
              IY |-> OrNone(Scaled(Slice(l, 32, 40), -8)),
              IZ |-> OrNone(Scaled(Slice(l, 40, 48), -8)),
              A |-> Scaled(Slice(l, 49, 55), -2),
              B |-> Scaled(Slice(l, 55, 60), -2),
              C |-> Scaled(Slice(l, 60, 66), -2),
              D |-> Scaled(Slice(l, 66, 71), k),
              E |-> Scaled(Slice(l, 71, 76), k),
              F |-> IF code \in {<<"P", "L", "G">>, <<"T", "E", "E">>, <<"C", "H", "L">>, <<"A", "N", "G">>, <<"C", "O", "N">>}
                    THEN GetFloat(Slice(l, 76, 80)) ELSE Unset]
        ELSE [cls |-> "SECT", ID |-> Strip(Slice(l, 5, 12)), sect |-> "False",
              AX |-> Unset, J |-> Unset, IY |-> Unset, IZ |-> Unset,
              A |-> Unset, B |-> Unset, C |-> Unset,
              D |-> Unset, E |-> Unset, F |-> Unset]

\* [exc, s]: the assertion on the stiffener type raises AssertionError
PSTIF(line) ==
    LET sacs_section_type == Strip(Slice(line, 6, 9))
    IN  IF Slice(line, 0, 5) # <<"P", "S", "T", "I", "F">> \/ sacs_section_type # <<"A", "N", "G">>
        THEN [exc |-> "AssertionError", s |-> Unset]
        ELSE [exc |-> "none",
              s |-> [cls |-> "PSTIF", ID |-> Strip(Slice(line, 10, 17)),
                     sect |-> memberMap(sacs_section_type),
                     AX |-> Unset, J |-> Unset, IY |-> Unset, IZ |-> Unset,
                     A |-> Scaled(Slice(line, 20, 27), -2),
                     B |-> Scaled(Slice(line, 34, 41), -2),
                     C |-> Scaled(Slice(line, 41, 48), -2),
                     D |-> Scaled(Slice(line, 55, 62), -2),
                     E |-> Unset, F |-> Unset]]

PGRUP(l) ==
    LET stiffener_section == Strip(Slice(l, 41, 48))
        has == stiffener_section # <<>>
    IN  [ID |-> Strip(Slice(l, 6, 9)),
         NA |-> At(l, 9),
         thickness |-> Scaled(Slice(l, 10, 16), -2),
         sect |-> At(l, 16),
         E |-> Scaled(Slice(l, 17, 23), 10),
         v |-> GetFloat(Slice(l, 23, 29)),
         FY |-> Scaled(Slice(l, 29, 35), 7),
         Zoffset |-> Scaled(Slice(l, 35, 41), -2),
         stiffener_section |-> IF has THEN stiffener_section ELSE NoAttr,
         stiffener_spacing |-> IF has THEN Scaled(Slice(l, 48, 54), -2) ELSE None,
         stiffener_direction |-> IF has THEN At(l, 54) ELSE "None",
         stiffener_placement |-> IF has THEN At(l, 55) ELSE "None",
         density |-> Scaled(Slice(l, 72, 80), 3)]

GRUP(l) ==
    [ID |-> Strip(Slice(l, 5, 8)),
     section |-> Strip(Slice(l, 9, 16)),
     OD |-> Scaled(Slice(l, 17, 23), -2),
     thickness |-> Scaled(Slice(l, 23, 29), -2),
     E |-> Scaled(Slice(l, 30, 35), 10),
     G |-> Scaled(Slice(l, 35, 40), 10),
     FY |-> Scaled(Slice(l, 40, 45), 7),
     jointThickness |-> GetFloat(Slice(l, 47, 51)),
     KY |-> GetFloat(Slice(l, 51, 55)),
     KZ |-> GetFloat(Slice(l, 55, 59)),
     spacing |-> GetFloat(Slice(l, 59, 64)),
     shearMod |-> GetFloat(Slice(l, 64, 69)),
     density |-> Scaled(Slice(l, 70, 76), 3),
     segLength |-> GetFloat(Slice(l, 76, 80))]

MEMBER(l) ==
    [jointA |-> Strip(Slice(l, 7, 11)),
     jointB |-> Strip(Slice(l, 11, 15)),
     ID |-> Strip(Slice(l, 7, 11)) \o Strip(Slice(l, 11, 15)),
     vertical |-> FALSE,
     ABQID |-> -1,
     group |-> Strip(Slice(l, 16, 19)),
     fixityA |-> Fixity(l, 22, 28),
     fixityB |-> Fixity(l, 28, 34),
     chordAngle |-> GetFloat(Slice(l, 35, 41)),
     density |-> Scaled(Slice(l, 64, 70), 3),
     segments |-> IntOf(GetFloat(Slice(l, 70, 72))),
     effectiveDiameter |-> Scaled(Slice(l, 72, 78), -2)]

PLATE(l) ==
    [ID |-> Slice(l, 6, 10),
     ABQID |-> -1,
     jointA |-> Strip(Slice(l, 11, 15)),
     jointB |-> Strip(Slice(l, 15, 19)),
     jointC |-> Strip(Slice(l, 19, 23)),
     jointD |-> Strip(Slice(l, 23, 27)),
     group |-> Strip(Slice(l, 27, 30)),
     thickness |-> Scaled(Slice(l, 32, 38), -2),
     E |-> Scaled(Slice(l, 47, 54), 10),
     v |-> GetFloat(Slice(l, 54, 59)),
     FY |-> Scaled(Slice(l, 59, 64), 7),
     density |-> Scaled(Slice(l, 69, 74), 3)]

\* A LOAD line.  type is "joint", "beam" or "pressure"; load is the list of
\* components (one component for a pressure, which Python holds as a float)
LOAD(l) ==
    LET load_type == Slice(l, 65, 69)
        load_csys == Slice(l, 60, 64)
        base == [load_type |-> load_type, load_csys |-> load_csys,
                 type |-> "unset", joint |-> NoAttr, beam |-> NoAttr,
                 plate |-> NoAttr, dirn |-> "unset", load |-> <<>>,
                 start_offset |-> Unset, load_length |-> Unset,
                 remarks |-> Strip(Slice(l, 72, 80))]
    IN  IF load_csys = <<"G", "L", "O", "B">>
        THEN IF load_type = <<"J", "O", "I", "N">>
             THEN [base EXCEPT
                     !.type = "joint",
                     !.joint = Strip(Slice(l, 7, 11)),
                     !.load = <<Scaled(Slice(l, 16, 23), 3),
                                Scaled(Slice(l, 23, 30), 3),
                                Scaled(Slice(l, 30, 37), 3),
                                Scaled(Slice(l, 37, 44), 3),
                                Scaled(Slice(l, 45, 52), 3),
                                Scaled(Slice(l, 52, 59), 3)>>]
             ELSE [base EXCEPT
                     !.type = "beam",
                     !.dirn = At(l, 5),
                     !.beam = Slice(l, 7, 15),
                     !.start_offset = OrZero(GetFloat(Slice(l, 16, 23))),
                     !.load_length = OrZero(GetFloat(Slice(l, 30, 37))),
                     !.load = <<Scaled(Slice(l, 23, 30), 3),
                                Scaled(Slice(l, 37, 44), 3)>>]
        ELSE IF load_csys = <<"P", "R", "E", "S">>
        THEN [base EXCEPT
                !.type = "pressure",
                !.plate = Strip(Slice(l, 7, 11)),
                !.load = <<IF At(l, 5) = "-"
                           THEN Mul(Scaled(Slice(l, 16, 23), 3), Float(-1, 0))
                           ELSE Scaled(Slice(l, 16, 23), 3)>>]
        ELSE base

\* LOAD.scale
scale(load, factor) ==
    [load EXCEPT !.load = [i \in 1..Len(load.load) |-> Mul(factor, load.load[i])]]

LOADCASE == [description |-> <<>>, loads |-> <<>>]

\* LOADCASE.AddLoad with the load put at the head of the list
AddLoadFirst(case, l) == [case EXCEPT !.loads = <<LOAD(l)>> \o @]

\* LOADCASE.AddLoad
AddLoad(case, l) == [case EXCEPT !.loads = Append(@, LOAD(l))]

LCOMB == [loadcases |-> <<>>]

\* LCOMB.AddLoads: the six (name, factor) column pairs of an LCOMB line
RECURSIVE AddLoadsFrom(_, _, _)
AddLoadsFrom(lcomb, l, i) ==
    IF i > 5 THEN lcomb
    ELSE LET loadcase_name   == Slice(l, 11 + 10 * i, 15 + 10 * i)
             loadcase_factor == Slice(l, 15 + 10 * i, 21 + 10 * i)
             next == IF Strip(loadcase_name) # <<>>
                     THEN [lcomb EXCEPT !.loadcases =
                             Append(@, <<Strip(loadcase_name),
                                         GetFloat(loadcase_factor)>>)]
                     ELSE lcomb
         IN  AddLoadsFrom(next, l, i + 1)

AddLoads(lcomb, l) == AddLoadsFrom(lcomb, l, 0)

JOINT(l, abq_n) ==
    [ABQID |-> abq_n,
     ID |-> Strip(Slice(l, 6, 10)),
     x |-> Add(GetFloat(Slice(l, 11, 18)), Scaled(Slice(l, 32, 39), -2)),
     y |-> Add(GetFloat(Slice(l, 18, 25)), Scaled(Slice(l, 39, 46), -2)),
     z |-> Add(GetFloat(Slice(l, 25, 32)), Scaled(Slice(l, 46, 53), -2)),
     fixity |-> Fixity(l, 54, 60),
     remarks |-> Slice(l, 61, 69),
     spring |-> [set |-> FALSE, rates |-> <<>>, comments |-> <<>>,
                 joint2 |-> <<>>, joint3 |-> <<>>]]

\* JOINT.Elastic
Elastic(j, l) ==
    [j EXCEPT !.spring =
        [set |-> TRUE,
         rates |-> <<Scaled(Slice(l, 11, 18), 3), Scaled(Slice(l, 18, 25), 3),
                     Scaled(Slice(l, 25, 32), 3),
                     Mul(GetFloat(Slice(l, 32, 39)), Float(1, -1)),
                     Mul(GetFloat(Slice(l, 39, 46)), Float(1, -1)),
                     Mul(GetFloat(Slice(l, 46, 53)), Float(1, -1))>>,
         comments |-> Slice(l, 61, 69),
         joint2 |-> Strip(Slice(l, 72, 76)),
         joint3 |-> Strip(Slice(l, 76, 80))]]

---------------------------------------------------------------------------
(* sacs_cards.py: SacsStructure and parse_sacs_file                        *)

\* An entry of the node map: the tuple (ABQID, ID)
NmapEntry(abqid, id) == [kind |-> "tuple", items |-> <<abqid, id>>]

\* The attributes of a new SacsStructure
SacsStructure ==
    [members |-> <<>>, plates |-> <<>>, grups |-> <<>>, pgrups |-> <<>>,
     sects |-> <<>>, joints |-> <<>>, nmap |-> <<>>, abq_n |-> 0,
     lcombs |-> <<>>, loadcases |-> <<>>, load_case |-> <<>>,
     missing_sect_members |-> <<>>]

Ok(st) == [exc |-> "none", stru |-> st]

Raise(e, st) == [exc |-> e, stru |-> st]

\* stru.abq_n += 1; stru.joints[j.ID] = j; stru.nmap.append((j.ABQID, j.ID))
AddJoint(stru, j) ==
    Ok([stru EXCEPT !.abq_n = @ + 1,
                    !.joints = Put(@, j.ID, j),
                    !.nmap = Append(@, NmapEntry(j.ABQID, j.ID))])

\* stru.members[m.ID] = m
AddMember(stru, m) == Ok([stru EXCEPT !.members = Put(@, m.ID, m)])

\* stru.plates[p.ID] = p
AddPlate(stru, p) == Ok([stru EXCEPT !.plates = Put(@, p.ID, p)])

\* stru.sects[s.ID] = s
AddSect(stru, s) == Ok([stru EXCEPT !.sects = Put(@, s.ID, s)])

\* stru.sects[s.ID] = PSTIF(l), ps = [exc, s]
AddPstif(stru, ps) ==
    IF ps.exc # "none" THEN Raise(ps.exc, stru) ELSE AddSect(stru, ps.s)

\* sect = SECT._from_grup(g); stru.sects[sect.ID] = sect;
\* g.section = sect.ID; stru.grups[g.ID] = g
AddGrupWithSect(stru, g, s) ==
    Ok([stru EXCEPT !.sects = Put(@, s.ID, s),
                    !.grups = Put(@, g.ID, [g EXCEPT !.section = s.ID])])

\* if not g.section: ...; stru.grups[g.ID] = g
AddGrup(stru, g) ==
    IF g.section = <<>>
    THEN AddGrupWithSect(stru, g, SECT_from_grup(g))
    ELSE Ok([stru EXCEPT !.grups = Put(@, g.ID, g)])

\* stru.pgrups[pg.ID] = pg
AddPgrup(stru, pg) == Ok([stru EXCEPT !.pgrups = Put(@, pg.ID, pg)])

\* The body of the loop over the lines for the padded line l: [exc, stru]
ParsePadded(stru, l, r) ==
    IF r # <<"J", "O", "I", "N", "T">> /\ Slice(l, 0, 5) = <<"J", "O", "I", "N", "T">>
    THEN IF Slice(l, 54, 60) = <<"E", "L", "A", "S", "T", "I">> /\ Has(stru.joints, Slice(l, 6, 10))
         THEN Ok([stru EXCEPT !.joints =
                    Put(@, Slice(l, 6, 10),
                        Elastic(Get(stru.joints, Slice(l, 6, 10)), l))])
         ELSE IF Slice(l, 54, 60) = <<"E", "L", "A", "S", "T", "I">>
         THEN Ok(stru)
         ELSE AddJoint(stru, JOINT(l, stru.abq_n + 1))
    ELSE IF Slice(l, 0, 6) = <<"M", "E", "M", "B", "E", "R">> /\ r # <<"M", "E", "M", "B", "E", "R">>
            /\ Slice(l, 7, 14) # <<"O", "F", "F", "S", "E", "T", "S">>
    THEN AddMember(stru, MEMBER(l))
    ELSE IF Slice(l, 0, 5) = <<"P", "L", "A", "T", "E">> /\ r # <<"P", "L", "A", "T", "E">>
            /\ Slice(l, 7, 14) # <<"O", "F", "F", "S", "E", "T", "S">>
    THEN AddPlate(stru, PLATE(l))
    ELSE IF r # <<"S", "E", "C", "T">> /\ Slice(l, 0, 4) = <<"S", "E", "C", "T">>
    THEN IF ~Has(stru.sects, Slice(l, 5, 12))
         THEN AddSect(stru, SECT(l))
         ELSE Ok(stru)
    ELSE IF Strip(l) # <<"P", "S", "T", "I", "F">> /\ Slice(l, 0, 5) = <<"P", "S", "T", "I", "F">>
    THEN IF ~Has(stru.sects, Strip(Slice(l, 10, 17)))
         THEN AddPstif(stru, PSTIF(l))
         ELSE Ok(stru)
    ELSE IF r # <<"G", "R", "U", "P">> /\ Slice(l, 0, 4) = <<"G", "R", "U", "P">>
    THEN IF ~Has(stru.grups, Slice(l, 5, 8))
         THEN AddGrup(stru, GRUP(l))
         ELSE Ok(stru)
    ELSE IF r # <<"P", "G", "R", "U", "P">> /\ Slice(l, 0, 5) = <<"P", "G", "R", "U", "P">>
    THEN IF ~Has(stru.pgrups, Slice(l, 5, 8))
         THEN AddPgrup(stru, PGRUP(l))
         ELSE Ok(stru)
    ELSE IF Slice(l, 0, 6) = <<"L", "O", "A", "D", "C", "N">>
    THEN Ok([stru EXCEPT !.load_case = Strip(Slice(l, 7, 12)),
                         !.loadcases = Put(@, Strip(Slice(l, 7, 12)), LOADCASE)])
    ELSE IF Slice(l, 0, 6) = <<"L", "O", "A", "D", "L", "B">>
    THEN IF ~Has(stru.loadcases, stru.load_case)
         THEN Raise("KeyError", stru)
         ELSE Ok([stru EXCEPT !.loadcases =
                    Put(@, stru.load_case,
                        [Get(stru.loadcases, stru.load_case)
                            EXCEPT !.description = Slice(l, 6, 80)])])
    ELSE IF Strip(l) # <<"L", "O", "A", "D">> /\ Slice(l, 0, 4) = <<"L", "O", "A", "D">>
    THEN IF <<Slice(l, 60, 64), Slice(l, 65, 69)>> \in
                {<<<<"G", "L", "O", "B">>, <<"J", "O", "I", "N">>>>, <<<<"G", "L", "O", "B">>, <<"U", "N", "I", "F">>>>, <<<<"P", "R", "E", "S">>, <<"U", "N", "I", "F">>>>}
         THEN IF ~Has(stru.loadcases, stru.load_case)
              THEN Raise("KeyError", stru)
              ELSE Ok([stru EXCEPT !.loadcases =
                         Put(@, stru.load_case,
                             AddLoad(Get(stru.loadcases, stru.load_case), l))])
         ELSE Ok(stru)
    ELSE IF Slice(l, 0, 5) = <<"L", "C", "O", "M", "B">>
    THEN IF Has(stru.lcombs, Strip(Slice(l, 6, 10)))
         THEN Ok([stru EXCEPT !.lcombs =
                    Put(@, Strip(Slice(l, 6, 10)),
                        AddLoads(Get(stru.lcombs, Strip(Slice(l, 6, 10))), l))])
         ELSE Ok([stru EXCEPT !.lcombs =
                    Put(@, Strip(Slice(l, 6, 10)), AddLoads(LCOMB, l))])
    ELSE Ok(stru)

\* for l in f: pad the line to 80 columns, then dispatch on its keyword
ParseLine(stru, l0) == ParsePadded(stru, Pad80(l0), RStrip(Pad80(l0)))


---------------------------------------------------------------------------
(* sacs_cards.py: SacsStructure.merge_small_members                        *)

AbsF(a) == IF a.m < 0 THEN Neg(a) ELSE a

\* v.length() < tol.  length() is sqrt(v.v), so the test is v.v < tol^2; a
\* component of magnitude >= tol already decides it, which keeps the squares
\* that are computed of one order of magnitude.
LengthLt(v, tol) ==
    /\ Lt(AbsF(v.x), tol) /\ Lt(AbsF(v.y), tol) /\ Lt(AbsF(v.z), tol)
    /\ Lt(dot(v, v), Mul(tol, tol))

\* entry.append(x): a tuple has no append
TupleAppend(entry, x) ==
    IF entry.kind = "list"
    THEN [exc |-> "none", entry |-> [entry EXCEPT !.items = Append(@, x)]]
    ELSE [exc |-> "AttributeError", entry |-> entry]

\* The body of the loop of merge_small_members for member key m
MergeMember(stru, m) ==
    LET mem == Get(stru.members, m)
    IN  IF ~Has(stru.joints, mem.jointA) \/ ~Has(stru.joints, mem.jointB)
        THEN Raise("KeyError", stru)
        ELSE
        LET jointA == Get(stru.joints, mem.jointA)
            jointB == Get(stru.joints, mem.jointB)
            jA == as_vector(jointA)
            jB == as_vector(jointB)
        IN  IF LengthLt(VSub(jA, jB), LENGTH_TOL)
            THEN IF jointB.ABQID - 1 >= Len(stru.nmap)
                 THEN Raise("IndexError", stru)
                 ELSE
                 LET app == TupleAppend(stru.nmap[jointB.ABQID],
                                        <<"MERGED WITH", jointA.ABQID>>)
                 IN  IF app.exc # "none" THEN Raise(app.exc, stru)
                     ELSE Ok([stru EXCEPT
                                !.nmap[jointB.ABQID] = app.entry,
                                !.joints = Put(@, mem.jointB,
                                    [jointB EXCEPT !.ABQID = jointA.ABQID])])
            ELSE Ok(stru)

\* for m in self.members, from the i-th key on: r is [exc, stru] so far
RECURSIVE MergeFrom(_, _, _)
MergeFrom(r, keys, i) ==
    IF i > Len(keys) \/ r.exc # "none" THEN r
    ELSE MergeFrom(MergeMember(r.stru, keys[i]), keys, i + 1)

merge_small_members(stru) == MergeFrom(Ok(stru), Keys(stru.members), 1)

---------------------------------------------------------------------------
(* Sorting: sorted() on names and on (id, name) tuples                     *)

AsciiOrder ==
    <<" ", "+", "-", ".", "0", "1", "2", "3", "4", "5", "6", "7", "8", "9",
      "<", ">", "A", "B", "C", "D", "E", "F", "G", "H", "I", "J", "K", "L",
      "M", "N", "O", "P", "Q", "R", "S", "T", "U", "V", "W", "X", "Y", "Z",
      "e">>

Ord(c) == CHOOSE i \in 1..Len(AsciiOrder) : AsciiOrder[i] = c

RECURSIVE StrLt(_, _)
StrLt(a, b) ==
    IF b = <<>> THEN FALSE
    ELSE IF a = <<>> THEN TRUE
    ELSE IF a[1] # b[1] THEN Ord(a[1]) < Ord(b[1])
    ELSE StrLt(Tail(a), Tail(b))

\* (id, name) tuples compare by id, then by name
PairLt(a, b) == a[1] < b[1] \/ (a[1] = b[1] /\ StrLt(a[2], b[2]))

\* The order sorted() uses: kind is "str" for names, "pair" for tuples
SortLt(kind, a, b) == IF kind = "str" THEN StrLt(a, b) ELSE PairLt(a, b)

RECURSIVE InsertSorted(_, _, _)
InsertSorted(s, x, kind) ==
    IF s = <<>> THEN <<x>>
    ELSE IF SortLt(kind, x, s[1]) THEN <<x>> \o s
    ELSE <<s[1]>> \o InsertSorted(Tail(s), x, kind)

RECURSIVE Sorted(_, _)
Sorted(s, kind) ==
    IF s = <<>> THEN <<>>
    ELSE InsertSorted(Sorted(SubSeq(s, 1, Len(s) - 1), kind), s[Len(s)], kind)

---------------------------------------------------------------------------
(* inp_writer.py: the writers.  The files written are sequences of line    *)
(* records; a writer yields [exc, stru, out].                              *)

BEAM_TYPE == "B31"

NoFiles ==
    [inp |-> <<>>, nmap |-> <<>>, elmap |-> <<>>, loads |-> <<>>, iges |-> <<>>]

\* name.replace(".", "-")
ReplaceDot(name) == [i \in 1..Len(name) |-> IF name[i] = "." THEN "-" ELSE name[i]]

WOk(st, o) == [exc |-> "none", stru |-> st, out |-> o]

WRaise(e, st, o) == [exc |-> e, stru |-> st, out |-> o]

Emit(o, line) == [o EXCEPT !.inp = Append(@, line)]

write_nodes(stru, out) ==
    LET names == Sorted(Keys(stru.joints), "str")
        lines == [i \in 1..Len(names) |->
                    LET j == Get(stru.joints, names[i])
                    IN  [t |-> "node", id |-> j.ABQID, x |-> j.x, y |-> j.y, z |-> j.z]]
    IN  WOk(stru, [out EXCEPT !.inp = @ \o <<[t |-> "node_block"]>> \o lines])

\* The joints named exist in stru.joints
JointsKnown(stru, names) == \A i \in 1..Len(names) : Has(stru.joints, names[i])

\* The element line of member mem, numbered in st
BeamElementIn(w, st, mem) ==
    IF ~JointsKnown(st, <<mem.jointA, mem.jointB>>)
    THEN [w EXCEPT !.exc = "KeyError", !.stru = st]
    ELSE [w EXCEPT
            !.stru = st,
            !.out = Emit(@, [t |-> "element", type |-> BEAM_TYPE,
                             id |-> w.elnum,
                             nodes |-> <<Get(st.joints, mem.jointA).ABQID,
                                         Get(st.joints, mem.jointB).ABQID>>]),
            !.elnum = @ + 1]

\* The body of the loop over the members for member m = mem
BeamElement(w, m, mem) ==
    BeamElementIn(w, [w.stru EXCEPT !.members =
                         Put(@, m, [mem EXCEPT !.ABQID = w.elnum])], mem)

\* The inner loop over the members for group g: w is [exc, stru, out, elnum]
RECURSIVE BeamElementsFrom(_, _, _, _)
BeamElementsFrom(w, g, keys, i) ==
    IF i > Len(keys) \/ w.exc # "none" THEN w
    ELSE IF Get(w.stru.members, keys[i]).group # g
    THEN BeamElementsFrom(w, g, keys, i + 1)
    ELSE BeamElementsFrom(BeamElement(w, keys[i], Get(w.stru.members, keys[i])),
                          g, keys, i + 1)

\* The outer loop over stru.grups
RECURSIVE BeamGroupsFrom(_, _, _)
BeamGroupsFrom(w, gkeys, i) ==
    IF i > Len(gkeys) \/ w.exc # "none" THEN w
    ELSE BeamGroupsFrom(
            BeamElementsFrom(
                [w EXCEPT !.out = Emit(@, [t |-> "element_block",
                    type |-> BEAM_TYPE, elset |-> <<"MG-", ReplaceDot(gkeys[i])>>])],
                gkeys[i], Keys(w.stru.members), 1),
            gkeys, i + 1)

\* The 3-node shell of plate pl, numbered in st: the state of the loop after
ShellS3(w, st, pl, o1) ==
    IF ~JointsKnown(st, <<pl.jointA, pl.jointB, pl.jointC>>)
    THEN [w EXCEPT !.exc = "KeyError", !.stru = st, !.out = o1]
    ELSE [w EXCEPT
            !.stru = st,
            !.out = Emit(o1, [t |-> "element", type |-> "S3",
                              id |-> w.elnum,
                              nodes |-> <<Get(st.joints, pl.jointA).ABQID,
                                          Get(st.joints, pl.jointB).ABQID,
                                          Get(st.joints, pl.jointC).ABQID>>]),
            !.elnum = @ + 1]

\* The 4-node shell written from oj = OrderJoints(...)
ShellS4Ordered(w, st, o1, oj) ==
    IF oj.exc # "none"
    THEN [w EXCEPT !.exc = oj.exc, !.stru = st, !.out = o1]
    ELSE [w EXCEPT
            !.stru = st,
            !.out = Emit(o1, [t |-> "element", type |-> "S4R", id |-> w.elnum,
                              nodes |-> <<oj.jlist[1].ABQID, oj.jlist[2].ABQID,
                                          oj.jlist[3].ABQID, oj.jlist[4].ABQID>>]),
            !.elnum = @ + 1]

\* The 4-node shell of plate pl
ShellS4(w, st, pl, o1) ==
    IF ~JointsKnown(st, <<pl.jointA, pl.jointB, pl.jointC, pl.jointD>>)
    THEN [w EXCEPT !.exc = "KeyError", !.stru = st, !.out = o1]
    ELSE ShellS4Ordered(w, st, o1,
                        OrderJoints(<<Get(st.joints, pl.jointA),
                                      Get(st.joints, pl.jointB),
                                      Get(st.joints, pl.jointC),
                                      Get(st.joints, pl.jointD)>>))

\* The body of the loop over the plates for plate p = pl of group pg
ShellElement(w, pg, p, pl) ==
    IF pl.jointD = <<>>
    THEN ShellS3(w, [w.stru EXCEPT !.plates =
                        Put(@, p, [pl EXCEPT !.ABQID = w.elnum])],
                 pl,
                 Emit(w.out, [t |-> "element_block", type |-> "S3",
                              elset |-> <<"PG-", ReplaceDot(pg)>>]))
    ELSE ShellS4(w, [w.stru EXCEPT !.plates =
                        Put(@, p, [pl EXCEPT !.ABQID = w.elnum])],
                 pl,
                 Emit(w.out, [t |-> "element_block", type |-> "S4R",
                              elset |-> <<"PG-", ReplaceDot(pg)>>]))

\* The inner loop over the plates for plate group pg
RECURSIVE ShellElementsFrom(_, _, _, _)
ShellElementsFrom(w, pg, keys, i) ==
    IF i > Len(keys) \/ w.exc # "none" THEN w
    ELSE IF Get(w.stru.plates, keys[i]).group # pg
    THEN ShellElementsFrom(w, pg, keys, i + 1)
    ELSE ShellElementsFrom(
            ShellElement(w, pg, keys[i], Get(w.stru.plates, keys[i])),
            pg, keys, i + 1)

\* The outer loop over stru.pgrups
RECURSIVE ShellGroupsFrom(_, _, _)
ShellGroupsFrom(w, pgkeys, i) ==
    IF i > Len(pgkeys) \/ w.exc # "none" THEN w
    ELSE ShellGroupsFrom(
            ShellElementsFrom(w, pgkeys[i], Keys(w.stru.plates), 1), pgkeys, i + 1)

\* The value of a writer whose loops ended in w
Written(w) == [exc |-> w.exc, stru |-> w.stru, out |-> w.out]

\* elnum = 1, the loop over stru.grups, then the loop over stru.pgrups
write_elements(stru, out) ==
    Written(ShellGroupsFrom(
                BeamGroupsFrom([exc |-> "none", stru |-> stru, out |-> out,
                                elnum |-> 1],
                               Keys(stru.grups), 1),
                Keys(stru.pgrups), 1))

write_sets(stru, out) ==
    LET ms == [i \in 1..Len(stru.members) |->
                 [t |-> "elset",
                  elset |-> <<"M-", ReplaceDot(stru.members[i].v.ID)>>,
                  ids |-> <<stru.members[i].v.ABQID>>]]
        ps == [i \in 1..Len(stru.plates) |->
                 [t |-> "elset",
                  elset |-> <<"P-", ReplaceDot(stru.plates[i].v.ID)>>,
                  ids |-> <<stru.plates[i].v.ABQID>>]]
    IN  WOk(stru, [out EXCEPT !.inp = @ \o ms \o ps])


---------------------------------------------------------------------------
(* sacs_cards.py: SECT.abaqus_section_defn and the per-shape parameters    *)

Half(x) == Mul(x, Float(5, -1))

\* x != 0.0 (False != 0.0 is False)
NonZero(x) == ~NumEq(x, Zero)

\* FUNCTION_MAP[self.sect](): the parameter line, [exc, params]
SectionParams(s) ==
    IF s.sect = "PIPE"
    THEN IF NonZero(s.C) /\ s.D.ty = "unset"
         THEN [exc |-> "AttributeError", params |-> <<>>]
         ELSE IF NonZero(s.C) /\ NonZero(s.D)
         THEN [exc |-> "none", params |-> <<Half(s.A), s.B, Half(s.C), s.D>>]
         ELSE [exc |-> "none", params |-> <<Half(s.A), s.B>>]
    ELSE IF s.sect = "I"
    THEN [exc |-> "none", params |-> <<Half(s.C), s.C, s.A, s.A, s.B, s.B, s.D>>]
    ELSE IF s.sect = "TEE"
    THEN [exc |-> "none", params |-> <<Half(s.A), s.A, Zero, s.B, Zero, s.D, s.C>>]
    ELSE IF s.sect = "L"
    THEN IF s.cls = "PSTIF"
         THEN [exc |-> "none", params |-> <<s.B, s.A, s.D, s.C>>]
         ELSE [exc |-> "none", params |-> <<s.B, s.A, s.C, s.C>>]
    ELSE IF s.sect = "CHL"
    THEN [exc |-> "none", params |-> <<Half(s.A), s.A, s.B, s.B, s.D, s.D, s.C>>]
    ELSE IF s.sect = "ARBITRARY"
    THEN [exc |-> "none", params |-> <<s.AX, s.IY, Zero, s.IZ, s.J>>]
    ELSE IF s.sect = "BOX"
    THEN [exc |-> "none", params |-> <<s.C, s.A, s.D, s.B, s.D, s.B>>]
    ELSE [exc |-> "KeyError", params |-> <<>>]

\* LABEL_MAP.get(self.sect, self.sect)
LabelMap(sect) ==
    CASE sect = "TEE" -> "I"
      [] sect = "CHL" -> "CHANNEL"
      [] sect = "ARBITRARY" -> "GENERAL"
      [] OTHER -> sect

\* [exc, line]: the beam-section block of member label
SectionLine(s, label, p) ==
    [exc |-> p.exc,
     line |-> [t |-> "beam_section",
               general |-> s.sect \in {"CHL", "ARBITRARY"},
               elset |-> <<"M-", ReplaceDot(label)>>,
               section |-> LabelMap(s.sect),
               params |-> p.params]]

abaqus_section_defn(s, label) == SectionLine(s, label, SectionParams(s))

---------------------------------------------------------------------------
(* inp_writer.py: write_beam_sections                                      *)

\* out.write(sect.abaqus_section_defn(m)); assigned = True, d = [exc, line]
WriteSection(out, d) ==
    IF d.exc # "none"
    THEN [exc |-> d.exc, out |-> out, assigned |-> FALSE]
    ELSE [exc |-> "none", out |-> Emit(out, d.line), assigned |-> TRUE]

\* The section lookup and the emission of the section block for member m of
\* group g, which is in stru.grups: [exc, out, assigned]
AssignSection(stru, out, m, g) ==
    LET grup == Get(stru.grups, g)
    IN  IF grup.section # <<>>
        THEN IF ~Has(stru.sects, grup.section)
             THEN [exc |-> "none", out |-> out, assigned |-> FALSE]
             ELSE LET s == Get(stru.sects, grup.section)
                  IN  IF s.sect \in {"CON"}
                      THEN [exc |-> "none", out |-> out, assigned |-> FALSE]
                      ELSE IF s.sect \in {"PIPE", "I", "TEE", "L", "CHL",
                                          "ARBITRARY", "BOX"}
                      THEN WriteSection(out, abaqus_section_defn(s, m))
                      ELSE [exc |-> "none", out |-> out, assigned |-> FALSE]
        ELSE IF NonZero(grup.OD)
        THEN [exc |-> "none",
              out |-> Emit(out, [t |-> "beam_section", general |-> FALSE,
                                 elset |-> <<"M-", ReplaceDot(m)>>,
                                 section |-> "PIPE",
                                 params |-> <<Half(grup.OD), grup.thickness>>]),
              assigned |-> TRUE]
        ELSE [exc |-> "none", out |-> out, assigned |-> FALSE]

\* [exc, stru, out] from the structure and o = [exc, out]
WithOut(st, o) == [exc |-> o.exc, stru |-> st, out |-> o.out]

\* The orientation line of an assigned member: [exc, out].  The direction
\* itself (BeamCSys.from_sacs_points, rotated about x by -90 and by the chord
\* angle) is carried as the chord angle applied; from_sacs_points normalises
\* end - start and raises ZeroDivisionError when the two ends coincide.
Orientation(stru, out, m) ==
    LET mem == Get(stru.members, m)
    IN  IF ~JointsKnown(stru, <<mem.jointA, mem.jointB>>)
        THEN [exc |-> "KeyError", out |-> out]
        ELSE LET start == as_vector(Get(stru.joints, mem.jointA))
                 end   == as_vector(Get(stru.joints, mem.jointB))
             IN  IF IsZeroLength(VSub(end, start))
                 THEN [exc |-> "ZeroDivisionError", out |-> out]
                 ELSE [exc |-> "none",
                       out |-> Emit(out, [t |-> "orientation",
                                  elset |-> <<"M-", ReplaceDot(m)>>,
                                  chordAngle |-> IF Truthy(mem.chordAngle)
                                                 THEN mem.chordAngle ELSE Zero])]

\* if assigned: the orientation line; else: the member is recorded missing.
\* a = [exc, out, assigned] is the outcome of the section lookup
OrientOrMiss(st1, m, a) ==
    IF a.exc # "none" THEN WRaise(a.exc, st1, a.out)
    ELSE IF a.assigned THEN WithOut(st1, Orientation(st1, a.out, m))
    ELSE WOk([st1 EXCEPT !.missing_sect_members = Append(@, m)], a.out)

\* The body of the loop over the members for member key m of group g:
\* [exc, stru, out]
BeamSectionIn(stru, out, m, g) ==
    IF Has(stru.grups, g)
    THEN OrientOrMiss(stru, m, AssignSection(stru, out, m, g))
    ELSE OrientOrMiss([stru EXCEPT !.missing_sect_members = Append(@, m)], m,
                      [exc |-> "none", out |-> out, assigned |-> FALSE])

BeamSectionOf(stru, out, m) ==
    BeamSectionIn(stru, out, m, Get(stru.members, m).group)

RECURSIVE BeamSectionsFrom(_, _, _)
BeamSectionsFrom(w, keys, i) ==
    IF i > Len(keys) \/ w.exc # "none" THEN w
    ELSE BeamSectionsFrom(BeamSectionOf(w.stru, w.out, keys[i]), keys, i + 1)

\* After the loop over the members: the material, then the set of the
\* members without a section if there is one
BeamSectionsEnd(w) ==
    IF w.exc # "none" THEN w
    ELSE IF w.stru.missing_sect_members # <<>>
    THEN WOk(w.stru,
             Emit(Emit(w.out, [t |-> "material", name |-> "Mtl-Beam"]),
                  [t |-> "elset", elset |-> <<"ErrMissingSections">>,
                   ids |-> w.stru.missing_sect_members]))
    ELSE WOk(w.stru, Emit(w.out, [t |-> "material", name |-> "Mtl-Beam"]))

write_beam_sections(stru, out) ==
    BeamSectionsEnd(BeamSectionsFrom(WOk(stru, out), Keys(stru.members), 1))

write_plate_sections(stru, out) ==
    LET ls == [i \in 1..Len(stru.pgrups) |->
                 [t |-> "shell_section",
                  elset |-> <<"PG-", ReplaceDot(stru.pgrups[i].v.ID)>>,
                  thickness |-> stru.pgrups[i].v.thickness]]
    IN  WOk(stru, [out EXCEPT !.inp = @ \o ls \o
                        <<[t |-> "material", name |-> "Mtl-Plate"]>>])

---------------------------------------------------------------------------
(* inp_writer.py: write_node_map, write_element_map, write_loads           *)

\* One report line per node-map entry: the entry's items joined
write_node_map(stru, out) ==
    WOk(stru, [out EXCEPT !.nmap =
                  [i \in 1..Len(stru.nmap) |-> stru.nmap[i].items]])

write_element_map(stru, out) ==
    LET elmap == [i \in 1..Len(stru.members) |->
                    <<stru.members[i].v.ABQID, stru.members[i].k>>]
    IN  WOk(stru, [out EXCEPT !.elmap = Sorted(elmap, "pair")])

\* The lines of one load of an individual load case: a LOAD object has the
\* attribute load, not force, so reading l.force raises AttributeError (after
\* l.joint and stru.joints[l.joint] have been evaluated)
CloadLines(stru, l) ==
    IF l.joint = NoAttr THEN [exc |-> "AttributeError", lines |-> <<>>]
    ELSE IF ~Has(stru.joints, l.joint) THEN [exc |-> "KeyError", lines |-> <<>>]
    ELSE [exc |-> "AttributeError", lines |-> <<>>]

\* The loop over the load cases: w is [exc, out]
RECURSIVE LoadCasesFrom(_, _, _)
LoadCasesFrom(stru, w, i) ==
    IF i > Len(stru.loadcases) \/ w.exc # "none" THEN w
    ELSE LET case == stru.loadcases[i].v
             o1 == [w.out EXCEPT !.loads =
                      Append(@, [t |-> "load_case", name |-> stru.loadcases[i].k,
                                 description |-> case.description])]
         IN  IF case.loads # <<>>
             THEN LET o2 == [o1 EXCEPT !.loads = Append(@, [t |-> "cload"])]
                      c == CloadLines(stru, case.loads[1])
                  IN  [exc |-> c.exc, out |-> o2]
             ELSE LoadCasesFrom(stru,
                     [exc |-> "none",
                      out |-> [o1 EXCEPT !.loads = Append(@, [t |-> "rule"])]],
                     i + 1)

\* loadset[j][i] += l.force[i] * lc[1] over the loads of one referenced case
ComboContribution(loads) ==
    IF loads # <<>> THEN "AttributeError" ELSE "none"

\* The loop over the (name, factor) entries of combination lcm: the exception
\* raised, if any.  With no exception every referenced case is empty and the
\* loadset stays empty.
RECURSIVE ComboEntriesFrom(_, _, _)
ComboEntriesFrom(stru, entries, i) ==
    IF i > Len(entries) THEN "none"
    ELSE LET lc == entries[i]
         IN  IF Has(stru.loadcases, lc[1])
                /\ ComboContribution(Get(stru.loadcases, lc[1]).loads) # "none"
             THEN ComboContribution(Get(stru.loadcases, lc[1]).loads)
             ELSE ComboEntriesFrom(stru, entries, i + 1)

RECURSIVE CombosFrom(_, _, _)
CombosFrom(stru, w, i) ==
    IF i > Len(stru.lcombs) \/ w.exc # "none" THEN w
    ELSE LET e == ComboEntriesFrom(stru, stru.lcombs[i].v.loadcases, 1)
         IN  IF e # "none" THEN [w EXCEPT !.exc = e]
             ELSE CombosFrom(stru, w, i + 1)

\* The combination part of the file, after the individual cases ended in w1
CombinationPart(stru, w1) ==
    IF w1.exc # "none" THEN w1
    ELSE CombosFrom(stru,
            [exc |-> "none",
             out |-> [w1.out EXCEPT !.loads =
                         Append(@, [t |-> "combination_header"])]],
            1)

write_loads(stru, out) ==
    WithOut(stru,
        CombinationPart(stru,
            LoadCasesFrom(stru,
                [exc |-> "none",
                 out |-> [out EXCEPT !.loads =
                             Append(@, [t |-> "individual_header"])]],
                1)))

---------------------------------------------------------------------------
(* sacs_cards.py: LCOMB.to_basic                                           *)

ScaleAll(loads, factor) == [i \in 1..Len(loads) |-> scale(loads[i], factor)]

\* Python's recursion limit, scaled down
RecursionLimit == 3

\* [exc, loads, warnings] scaled by factor
ScaledBy(sub, factor) ==
    [exc |-> sub.exc, loads |-> ScaleAll(sub.loads, factor),
     warnings |-> sub.warnings]

\* here followed by rest, both [exc, loads, warnings]
Followed(here, rest) ==
    [exc |-> rest.exc, loads |-> here.loads \o rest.loads,
     warnings |-> here.warnings \o rest.warnings]

RECURSIVE ToBasicFrom(_, _, _, _, _)

\* EntryLoads looking a name up among the combinations before the load cases
EntryLoadsOfCombinationFirst(loadcases, lcombs, lc, factor, d) ==
    IF Has(lcombs, lc)
    THEN IF d >= RecursionLimit
         THEN [exc |-> "RecursionError", loads |-> <<>>, warnings |-> <<>>]
         ELSE ScaledBy(ToBasicFrom(loadcases, lcombs,
                                   Get(lcombs, lc).loadcases, 1, d + 1),
                       factor)
    ELSE IF Has(loadcases, lc)
    THEN [exc |-> "none", loads |-> ScaleAll(Get(loadcases, lc).loads, factor),
          warnings |-> <<>>]
    ELSE [exc |-> "none", loads |-> <<>>, warnings |-> <<lc>>]

\* The loads of the entry (lc, factor) of a combination at recursion depth
\* d: [exc, loads, warnings], warnings being the names logging.warning is
\* called with.  An unknown name is logged and skipped.
EntryLoads(loadcases, lcombs, lc, factor, d) ==
    IF Has(loadcases, lc)
    THEN [exc |-> "none", loads |-> ScaleAll(Get(loadcases, lc).loads, factor),
          warnings |-> <<>>]
    ELSE IF Has(lcombs, lc)
    THEN IF d >= RecursionLimit
         THEN [exc |-> "RecursionError", loads |-> <<>>, warnings |-> <<>>]
         ELSE ScaledBy(ToBasicFrom(loadcases, lcombs,
                                   Get(lcombs, lc).loadcases, 1, d + 1),
                       factor)
    ELSE [exc |-> "none", loads |-> <<>>, warnings |-> <<lc>>]

\* The entries after the i-th, whose loads are here
AfterEntry(here, loadcases, lcombs, entries, i, d) ==
    IF here.exc # "none" THEN here
    ELSE Followed(here, ToBasicFrom(loadcases, lcombs, entries, i + 1, d))

\* to_basic of the combination with these entries, from the i-th on, at
\* recursion depth d: [exc, loads, warnings]
ToBasicFrom(loadcases, lcombs, entries, i, d) ==
    IF i > Len(entries) THEN [exc |-> "none", loads |-> <<>>, warnings |-> <<>>]
    ELSE AfterEntry(EntryLoads(loadcases, lcombs, entries[i][1],
                               entries[i][2], d),
                    loadcases, lcombs, entries, i, d)

\* The flattened LOADCASE of r = [exc, loads, warnings]
FlatCase(r) ==
    [exc |-> r.exc, case |-> [LOADCASE EXCEPT !.loads = r.loads],
     warnings |-> r.warnings]

\* [exc, case, warnings]: the flattened LOADCASE
to_basic(lcomb, loadcases, lcombs) ==
    FlatCase(ToBasicFrom(loadcases, lcombs, lcomb.loadcases, 1, 1))


---------------------------------------------------------------------------
(* sacs_cards.py: to_material_dict, SECT.to_dict, SacsStructure.to_dict    *)

RECURSIVE GCD(_, _)
GCD(a, b) == IF b = 0 THEN a ELSE GCD(b, a % b)

\* The rational p / q in lowest terms, q > 0
Ratio(p, q) ==
    LET g == GCD(Abs(p), Abs(q))
        s == IF q < 0 THEN -1 ELSE 1
    IN  [ty |-> "ratio", p |-> s * (p \div g), q |-> s * (q \div g)]

\* A float (or False) as a rational
RatioOf(x) ==
    IF x.e >= 0 THEN Ratio(x.m * Pow10(x.e), 1) ELSE Ratio(x.m, Pow10(-x.e))

\* a / b - 1 for floats a, b with b # 0: the mantissas divided, the
\* exponents subtracted
QuotientMinusOne(a, b) ==
    LET d == a.e - b.e
        p == IF d >= 0 THEN a.m * Pow10(d) ELSE a.m
        q == IF d >= 0 THEN b.m ELSE b.m * Pow10(-d)
    IN  Ratio(p - q, q)

\* A number as a key of a dict: False and 0.0 are the same key
Num(x) == Float(x.m, x.e)

\* PGRUP.to_material_dict
PGRUP_to_material_dict(pgrup) ==
    [exc |-> "none",
     mat |-> [youngs |-> Num(pgrup.E), poisson |-> RatioOf(pgrup.v),
              yield |-> Num(pgrup.FY), density |-> Num(pgrup.density)]]

\* GRUP.to_material_dict: E / (2 * G) - 1 divides by zero when G is 0.0
GRUP_to_material_dict(grup) ==
    IF ~NonZero(grup.G)
    THEN [exc |-> "ZeroDivisionError", mat |-> <<>>]
    ELSE [exc |-> "none",
          mat |-> [youngs |-> Num(grup.E),
                   poisson |-> QuotientMinusOne(grup.E, Mul(Float(2, 0), grup.G)),
                   yield |-> Num(grup.FY), density |-> Num(grup.density)]]

\* {name: pgrup.to_material_dict()} | {name: grup.to_material_dict()}
SacsMaterials(stru) ==
    LET pm == [i \in 1..Len(stru.pgrups) |->
                 [k |-> stru.pgrups[i].k,
                  v |-> PGRUP_to_material_dict(stru.pgrups[i].v).mat]]
        RECURSIVE Merge(_, _)
        Merge(d, i) ==
            IF i > Len(stru.grups) THEN d
            ELSE Merge(Put(d, stru.grups[i].k,
                           GRUP_to_material_dict(stru.grups[i].v).mat), i + 1)
    IN  IF \E i \in 1..Len(stru.grups) :
               GRUP_to_material_dict(stru.grups[i].v).exc # "none"
        THEN [exc |-> "ZeroDivisionError", d |-> <<>>]
        ELSE [exc |-> "none", d |-> Merge(pm, 1)]

\* materials[(youngs, poisson, yield, density)].append(name): the distinct
\* property tuples in order of first occurrence, each with its names
RECURSIVE Deduplicate(_, _, _)
Deduplicate(sacs_materials, i, acc) ==
    IF i > Len(sacs_materials) THEN acc
    ELSE LET props == sacs_materials[i].v
             name == sacs_materials[i].k
         IN  Deduplicate(sacs_materials, i + 1,
                IF Has(acc, props)
                THEN Put(acc, props, Append(Get(acc, props), name))
                ELSE Put(acc, props, <<name>>))

\* material_map: the exported material index of a group name
MaterialIndex(materials, name) ==
    CHOOSE i \in 1..Len(materials) :
        /\ \E n \in 1..Len(materials[i].v) : materials[i].v[n] = name
        /\ \A j \in (i + 1)..Len(materials) :
              \A n \in 1..Len(materials[j].v) : materials[j].v[n] # name

InMaterialMap(materials, name) ==
    \E i \in 1..Len(materials) :
        \E n \in 1..Len(materials[i].v) : materials[i].v[n] = name

\* CSys.from_beam_ends(start, end): the frame whose local x is the normalised
\* beam axis; the normalisation divides by the length
CSys_from_beam_ends(start, end) ==
    IF IsZeroLength(VSub(end, start)) THEN "ZeroDivisionError" ELSE "none"

\* CSys(local_x, local_y, local_z): the three axes normalised
CSys_init(x, y, z) ==
    IF IsZeroLength(x) \/ IsZeroLength(y) \/ IsZeroLength(z)
    THEN "ZeroDivisionError" ELSE "none"

\* The entry of a member whose joints and group exist, c being the outcome
\* of its local_csys
MemberEntry(stru, materials, mem, c) ==
    IF c # "none" THEN [exc |-> c, v |-> <<>>]
    ELSE IF ~InMaterialMap(materials, mem.group)
    THEN [exc |-> "KeyError", v |-> <<>>]
    ELSE [exc |-> "none",
          v |-> [jointA |-> mem.jointA, jointB |-> mem.jointB,
                 section |-> Get(stru.grups, mem.group).section,
                 chordAngle |-> mem.chordAngle,
                 material |-> MaterialIndex(materials, mem.group)]]

\* The entry of one member in to_dict: [exc, v]
MemberDict(stru, materials, mem) ==
    IF ~Has(stru.joints, mem.jointA) \/ ~Has(stru.joints, mem.jointB)
    THEN [exc |-> "KeyError", v |-> <<>>]
    ELSE IF ~Has(stru.grups, mem.group)
    THEN [exc |-> "KeyError", v |-> <<>>]
    ELSE MemberEntry(stru, materials, mem,
            CSys_from_beam_ends(as_vector(Get(stru.joints, mem.jointA)),
                                as_vector(Get(stru.joints, mem.jointB))))

\* round(x, 5), half to even on the decimal digits
Round5(x) ==
    IF x.e >= -5 THEN x
    ELSE LET p == Pow10(-5 - x.e)
             a == Abs(x.m)
             q == a \div p
             r == a % p
             up == 2 * r > p \/ (2 * r = p /\ q % 2 = 1)
             n == IF up THEN q + 1 ELSE q
         IN  Float(IF x.m < 0 THEN -n ELSE n, -5)

\* PLATE.local_csys: local_x = b - a, local_z = local_x x (c - a),
\* local_y = local_z x local_x, CSys(local_x, local_y, local_z)
PlateAxes(local_x, local_z) ==
    CSys_init(local_x, cross(local_z, local_x), local_z)

PlateSides(local_x, ac) == PlateAxes(local_x, cross(local_x, ac))

PLATE_local_csys(a, b, c) == PlateSides(VSub(b, a), VSub(c, a))

\* The joints of a plate: jointD only if the plate has four
PlateJointNames(pl) ==
    <<pl.jointA, pl.jointB, pl.jointC>>
        \o (IF pl.jointD # <<>> THEN <<pl.jointD>> ELSE <<>>)

\* The entry of a plate whose joints and group exist, cs being the outcome
\* of its local_csys
\* (the centroid and the axes are carried as the joints they are computed
\* from)
PlateEntry(stru, materials, pl, cs) ==
    IF cs # "none" THEN [exc |-> cs, v |-> <<>>]
    ELSE IF ~InMaterialMap(materials, pl.group)
    THEN [exc |-> "KeyError", v |-> <<>>]
    ELSE [exc |-> "none",
          v |-> [joints |-> PlateJointNames(pl),
                 thickness |-> Round5(Get(stru.pgrups, pl.group).thickness),
                 material |-> MaterialIndex(materials, pl.group)]]

\* The entry of one plate in to_dict: [exc, v]
PlateDict(stru, materials, pl) ==
    IF ~JointsKnown(stru, PlateJointNames(pl))
    THEN [exc |-> "KeyError", v |-> <<>>]
    ELSE IF ~Has(stru.pgrups, pl.group) THEN [exc |-> "KeyError", v |-> <<>>]
    ELSE PlateEntry(stru, materials, pl,
            PLATE_local_csys(as_vector(Get(stru.joints, pl.jointA)),
                             as_vector(Get(stru.joints, pl.jointB)),
                             as_vector(Get(stru.joints, pl.jointC))))

\* SECT.to_dict / PSTIF.to_dict: [exc, v]
SECT_to_dict(s) ==
    IF s.cls = "PSTIF"
    THEN [exc |-> "none", v |-> [type |-> "L", params |-> <<s.A, s.B, s.A, s.D, s.C>>]]
    ELSE IF s.sect = "PIPE"
    THEN IF NonZero(s.C) /\ s.D.ty = "unset"
         THEN [exc |-> "AttributeError", v |-> <<>>]
         ELSE IF NonZero(s.C) /\ NonZero(s.D)
         THEN [exc |-> "none", v |-> [type |-> "TAPER_PIPE",
                   params |-> <<Half(s.A), s.B, Half(s.C), s.D>>]]
         ELSE [exc |-> "none", v |-> [type |-> "PIPE", params |-> <<Half(s.A), s.B>>]]
    ELSE IF s.sect = "I"
    THEN [exc |-> "none", v |-> [type |-> "I",
              params |-> <<Half(s.C), s.C, s.A, s.A, s.B, s.B, s.D>>]]
    ELSE IF s.sect = "TEE"
    THEN [exc |-> "none", v |-> [type |-> "TEE",
              params |-> <<Half(s.A), s.A, s.B, s.D, s.C>>]]
    ELSE IF s.sect = "L"
    THEN [exc |-> "none", v |-> [type |-> "L", params |-> <<s.B, s.A, s.C, s.C>>]]
    ELSE IF s.sect = "CHL"
    THEN [exc |-> "none", v |-> [type |-> "CHL",
              params |-> <<Half(s.A), s.A, s.B, s.B, s.D, s.D, s.C>>]]
    ELSE IF s.sect = "ARBITRARY"
    THEN IF \E x \in {s.AX, s.IY, s.IZ, s.J} : x.ty = "NoneType"
         THEN [exc |-> "TypeError", v |-> <<>>]
         ELSE [exc |-> "none", v |-> [type |-> "ARBITRARY",
                   params |-> <<s.AX, s.IY, Zero, s.IZ, s.J>>]]
    ELSE IF s.sect = "BOX"
    THEN [exc |-> "none", v |-> [type |-> "BOX", params |-> <<s.C, s.A, s.D, s.D>>]]
    ELSE [exc |-> "KeyError", v |-> <<>>]

\* The first exception among the results rs ("none" if there is none)
FirstExc(rs) ==
    IF \E i \in 1..Len(rs) : rs[i].exc # "none"
    THEN rs[CHOOSE i \in 1..Len(rs) :
              rs[i].exc # "none" /\ \A j \in 1..(i - 1) : rs[j].exc = "none"].exc
    ELSE "none"


\* LOAD.to_dict
LOAD_to_dict(load) ==
    IF load.type = "joint"
    THEN [joint |-> load.joint, load |-> load.load, label |-> load.remarks]
    ELSE IF load.type = "beam"
    THEN [beam |-> load.beam, load |-> load.load,
          start_offset |-> load.start_offset, load_length |-> load.load_length]
    ELSE [plate |-> load.plate, load |-> load.load]

\* [load.to_dict() for load in case.loads], b = [exc, case]
MassesOf(b) ==
    [exc |-> b.exc,
     v |-> [i \in 1..Len(b.case.loads) |-> LOAD_to_dict(b.case.loads[i])]]

\* The masses of to_dict: [exc, v]; mass_loadcase is NoAttr for None
Masses(stru, mass_loadcase) ==
    IF mass_loadcase = NoAttr THEN [exc |-> "none", v |-> <<>>]
    ELSE IF Has(stru.loadcases, mass_loadcase)
    THEN MassesOf([exc |-> "none", case |-> Get(stru.loadcases, mass_loadcase)])
    ELSE IF ~Has(stru.lcombs, mass_loadcase)
    THEN [exc |-> "KeyError", v |-> <<>>]
    ELSE MassesOf(to_basic(Get(stru.lcombs, mass_loadcase),
                           stru.loadcases, stru.lcombs))

EmptyDict == [joints |-> <<>>, members |-> <<>>, plates |-> <<>>,
              profiles |-> <<>>, masses |-> <<>>, materials |-> <<>>]

\* The dict returned, from the entries of the members (ms), the plates (ps),
\* the profiles (pr) and the masses, each with the exception it raised
DictOfParts(stru, materials, ms, ps, pr, mass) ==
    IF FirstExc(ms) # "none" THEN [exc |-> FirstExc(ms), d |-> EmptyDict]
    ELSE IF FirstExc(ps) # "none" THEN [exc |-> FirstExc(ps), d |-> EmptyDict]
    ELSE IF FirstExc(pr) # "none" THEN [exc |-> FirstExc(pr), d |-> EmptyDict]
    ELSE IF mass.exc # "none" THEN [exc |-> mass.exc, d |-> EmptyDict]
    ELSE [exc |-> "none",
          d |-> [joints |-> [i \in 1..Len(stru.joints) |->
                               [k |-> stru.joints[i].k,
                                v |-> as_vector(stru.joints[i].v)]],
                 members |-> [i \in 1..Len(ms) |->
                               [k |-> stru.members[i].k, v |-> ms[i].v]],
                 plates |-> [i \in 1..Len(ps) |->
                               [k |-> stru.plates[i].k, v |-> ps[i].v]],
                 profiles |-> [i \in 1..Len(pr) |->
                               [k |-> stru.sects[i].k, v |-> pr[i].v]],
                 masses |-> mass.v,
                 materials |-> Keys(materials)]]

\* to_dict once the materials are deduplicated
DictOfMaterials(stru, mass_loadcase, materials) ==
    DictOfParts(stru, materials,
        [i \in 1..Len(stru.members) |->
            MemberDict(stru, materials, stru.members[i].v)],
        [i \in 1..Len(stru.plates) |->
            PlateDict(stru, materials, stru.plates[i].v)],
        [i \in 1..Len(stru.sects) |-> SECT_to_dict(stru.sects[i].v)],
        Masses(stru, mass_loadcase))

\* to_dict once sacs_materials is built, sm = [exc, d]
DictOfSacsMaterials(stru, mass_loadcase, sm) ==
    IF sm.exc # "none" THEN [exc |-> sm.exc, d |-> EmptyDict]
    ELSE DictOfMaterials(stru, mass_loadcase, Deduplicate(sm.d, 1, <<>>))

\* SacsStructure.to_dict: [exc, d]
to_dict(stru, mass_loadcase) ==
    DictOfSacsMaterials(stru, mass_loadcase, SacsMaterials(stru))


---------------------------------------------------------------------------
(* iges.py and part_writer.py: the surfaces of the plates                  *)

\* Iges(): the entities of the directory section in the order they are
\* added, each [code, params, child]
Iges == <<>>

\* Iges.entity: every entity takes two lines of the directory section and
\* is referred to by the number of the first
entity_id(writer) == 2 * Len(writer) + 1

entity(writer, code, params, child) ==
    Append(writer, [code |-> code, params |-> params, child |-> child])

\* Iges.pos
Iges_pos(pt, origin) ==
    <<Add(pt[1], origin[1]), Add(pt[2], origin[2]), Add(pt[3], origin[3])>>

\* Iges.line
Iges_line(writer, start, end, origin, child) ==
    entity(writer, 110, Iges_pos(start, origin) \o Iges_pos(end, origin), child)

\* The loop of Iges.mapping: a line to each point from the one before it
RECURSIVE MappingLines(_, _, _, _, _)
MappingLines(writer, points, origin, start, i) ==
    IF i > Len(points) THEN writer
    ELSE MappingLines(Iges_line(writer, start, points[i], origin, TRUE),
                      points, origin, points[i], i + 1)

\* Iges.mapping: the lines, then the composite curve that refers to them
Iges_mapping(writer, points, origin) ==
    entity(MappingLines(writer, points, origin, points[Len(points)], 1),
           102,
           <<Len(points)>> \o [i \in 1..Len(points) |->
                                 entity_id(writer) + 2 * (i - 1)],
           TRUE)

\* The curve on the surface and the trimmed surface that end Iges.surface
Trimmed(writer, surface, mapping) ==
    entity(entity(writer, 142, <<1, surface, 0, mapping, 2>>, TRUE),
           144, <<surface, 1, 0, entity_id(writer)>>, FALSE)

Mapped(writer, surface) == Trimmed(writer, surface, entity_id(writer) - 2)

\* Iges.surface
Iges_surface(writer, directrix, vector, points, origin) ==
    Mapped(Iges_mapping(entity(writer, 122, <<directrix>> \o vector, TRUE),
                        points, origin),
           entity_id(writer))

\* Iges.plane(size) with the default origin: `w, h = size` raises ValueError
\* unless size has exactly two items; [exc, writer]
Iges_plane(writer, size) ==
    IF Len(size) # 2
    THEN [exc |-> "ValueError", writer |-> writer]
    ELSE [exc |-> "none",
          writer |->
            Iges_surface(Iges_line(writer, <<Zero, Zero, Zero>>,
                                   <<size[1], Zero, Zero>>,
                                   <<Zero, Zero, Zero>>, TRUE),
                         entity_id(writer),
                         <<Zero, Add(Zero, size[2]), Zero>>,
                         <<<<size[1], Zero, Zero>>, <<size[1], size[2], Zero>>,
                           <<Zero, size[2], Zero>>, <<Zero, Zero, Zero>>>>,
                         <<Zero, Zero, Zero>>)]

\* [(j.x, j.y, j.z) for j in ...]
Positions(js) == [i \in 1..Len(js) |-> <<js[i].x, js[i].y, js[i].z>>]

\* writer.plane(...) of the joints OrderJoints returned
PlaneOfOrdered(writer, oj) ==
    IF oj.exc # "none" THEN [exc |-> oj.exc, writer |-> writer]
    ELSE Iges_plane(writer, Positions(oj.jlist))

\* The body of the loop of write_iges for one plate
PlateSurface(stru, writer, plate) ==
    IF ~JointsKnown(stru, <<plate.jointA, plate.jointB, plate.jointC>>)
    THEN [exc |-> "KeyError", writer |-> writer]
    ELSE IF plate.jointD = <<>>
    THEN Iges_plane(writer, Positions(<<Get(stru.joints, plate.jointA),
                                        Get(stru.joints, plate.jointB),
                                        Get(stru.joints, plate.jointC)>>))
    ELSE IF ~Has(stru.joints, plate.jointD)
    THEN [exc |-> "KeyError", writer |-> writer]
    ELSE PlaneOfOrdered(writer,
                        OrderJoints(<<Get(stru.joints, plate.jointA),
                                      Get(stru.joints, plate.jointB),
                                      Get(stru.joints, plate.jointC),
                                      Get(stru.joints, plate.jointD)>>))

RECURSIVE PlateSurfacesFrom(_, _, _)
PlateSurfacesFrom(stru, w, i) ==
    IF i > Len(stru.plates) \/ w.exc # "none" THEN w
    ELSE PlateSurfacesFrom(stru,
                           PlateSurface(stru, w.writer, stru.plates[i].v),
                           i + 1)

\* writer.write(filename): the file holds the entities of the writer
IgesWritten(stru, out, w) ==
    IF w.exc # "none" THEN WRaise(w.exc, stru, out)
    ELSE WOk(stru, [out EXCEPT !.iges = w.writer])

write_iges(stru, out) ==
    IgesWritten(stru, out,
                PlateSurfacesFrom(stru, [exc |-> "none", writer |-> Iges], 1))

---------------------------------------------------------------------------
(* The input files: sequences of fixed-column lines                        *)

\* The line holding each text of fields (a sequence of <<column, text>>) from
\* its 0-based column on, blank elsewhere; trailing blanks are not written
Card(fields) ==
    LET covers(f, i) == fields[f][1] < i /\ i <= fields[f][1] + Len(fields[f][2])
        full == [i \in 1..LineWidth |->
                   IF \E f \in 1..Len(fields) : covers(f, i)
                   THEN LET f == CHOOSE f \in 1..Len(fields) : covers(f, i)
                        IN  fields[f][2][i - fields[f][1]]
                   ELSE " "]
    IN  RStrip(full)

JointLine(name, xm, ym, zm, zcm) ==
    Card(<< <<0, <<"J", "O", "I", "N", "T">>>>, <<6, name>>, <<11, xm>>, <<18, ym>>, <<25, zm>>,
            <<46, zcm>> >>)

ElastiLine(name) ==
    Card(<< <<0, <<"J", "O", "I", "N", "T">>>>, <<6, name>>, <<11, <<"1", "0", "0", ".">>>>, <<54, <<"E", "L", "A", "S", "T", "I">>>> >>)

MemberLine(a, b, group) ==
    Card(<< <<0, <<"M", "E", "M", "B", "E", "R">>>>, <<7, a>>, <<11, b>>, <<16, group>> >>)

GrupLine(id, section, od, thickness, g) ==
    Card(<< <<0, <<"G", "R", "U", "P">>>>, <<5, id>>, <<9, section>>, <<17, od>>,
            <<23, thickness>>, <<30, <<"2", "0", ".">>>>, <<35, g>>, <<40, <<"2", "5", ".">>>>,
            <<70, <<"7", ".", "8", "5">>>> >>)

SectLine(id, code, a, b) ==
    Card(<< <<0, <<"S", "E", "C", "T">>>>, <<5, id>>, <<15, code>>, <<49, a>>, <<55, b>> >>)

PstifLine(type, id) ==
    Card(<< <<0, <<"P", "S", "T", "I", "F">>>>, <<6, type>>, <<10, id>>, <<20, <<"1", "0", ".">>>>,
            <<34, <<"1", ".">>>>, <<41, <<"1", ".">>>>, <<55, <<"8", ".">>>> >>)

PgrupLine(id, thickness) ==
    Card(<< <<0, <<"P", "G", "R", "U", "P">>>>, <<6, id>>, <<10, thickness>>, <<17, <<"2", "0", ".">>>>,
            <<23, <<".", "3">>>>, <<29, <<"2", "5", ".">>>>, <<72, <<"7", ".", "8", "5">>>> >>)

PlateLine(id, a, b, c, d, group) ==
    Card(<< <<0, <<"P", "L", "A", "T", "E">>>>, <<6, id>>, <<11, a>>, <<15, b>>, <<19, c>>,
            <<23, d>>, <<27, group>> >>)

LoadcnLine(name) == Card(<< <<0, <<"L", "O", "A", "D", "C", "N">>>>, <<7, name>> >>)

LoadlbLine(text) == Card(<< <<0, <<"L", "O", "A", "D", "L", "B">>>>, <<6, text>> >>)

LoadLine(joint, fx, fz, csys, type) ==
    Card(<< <<0, <<"L", "O", "A", "D">>>>, <<7, joint>>, <<16, fx>>, <<30, fz>>,
            <<60, csys>>, <<65, type>> >>)

LcombLine(name, n1, f1, n2, f2) ==
    Card(<< <<0, <<"L", "C", "O", "M", "B">>>>, <<6, name>>, <<11, n1>>, <<15, f1>>,
            <<21, n2>>, <<25, f2>> >>)

\* A zero gap is a second joint at the same place; a near gap is below
\* LENGTH_TOL (5e-5 cm); a far gap is a metre
Near == <<"5", ".", "-", "5">>
NearTwice == <<"1", ".", "-", "4">>

\* Joints A, B, C along z from the origin in the given order of
\* declaration, B near or far from A and C near or far from B, with the
\* members listed; withSpring adds a bare keyword line and spring lines.
GeometryDeck(order, bNear, cNear, members, withSpring) ==
    LET a == JointLine(<<"A">>, <<"0", ".">>, <<"0", ".">>, <<"0", ".">>, <<>>)
        b == IF bNear THEN JointLine(<<"B">>, <<"0", ".">>, <<"0", ".">>, <<"0", ".">>, Near)
             ELSE JointLine(<<"B">>, <<"1", ".">>, <<"0", ".">>, <<"0", ".">>, <<>>)
        c == IF bNear
             THEN (IF cNear THEN JointLine(<<"C">>, <<"0", ".">>, <<"0", ".">>, <<"0", ".">>, NearTwice)
                   ELSE JointLine(<<"C">>, <<"0", ".">>, <<"2", ".">>, <<"0", ".">>, <<>>))
             ELSE (IF cNear THEN JointLine(<<"C">>, <<"1", ".">>, <<"0", ".">>, <<"0", ".">>, Near)
                   ELSE JointLine(<<"C">>, <<"1", ".">>, <<"2", ".">>, <<"0", ".">>, <<>>))
        js == [i \in 1..3 |-> CASE order[i] = "A" -> a
                                [] order[i] = "B" -> b
                                [] order[i] = "C" -> c]
        spring == IF withSpring
                  THEN <<<<"J", "O", "I", "N", "T">>, ElastiLine(<<"B">>), js[1], ElastiLine(<<order[1]>>)>>
                  ELSE <<js[1]>>
        ms == [i \in 1..Len(members) |->
                 MemberLine(members[i][1], members[i][2], <<"G", "1">>)]
    IN  spring \o <<js[2], js[3]>>
           \o <<GrupLine(<<"G", "1">>, <<>>, <<"5", "0", ".">>, <<"2", ".">>, <<"8", ".">>)>> \o ms

JointOrders == {<<"A", "B", "C">>, <<"C", "B", "A">>, <<"B", "A", "C">>}

MemberLists ==
    {<<>>, << <<<<"A">>, <<"B">>>> >>, << <<<<"A">>, <<"B">>>>, <<<<"B">>, <<"C">>>> >>,
     << <<<<"B">>, <<"C">>>>, <<<<"A">>, <<"B">>>> >>}

GeometryDecks ==
    { GeometryDeck(o, bn, cn, ms, sp) :
        o \in JointOrders, bn \in BOOLEAN, cn \in BOOLEAN,
        ms \in MemberLists, sp \in BOOLEAN }


\* Joints A, B, C a metre apart; member A-B of group G1 and member B-C of
\* group memberGroup; an optional SECT line S1 of shape code; the GRUP line
\* G1 with the given section reference, OD and shear modulus
SectionDeck(section, code, od, memberGroup, g) ==
    <<JointLine(<<"A">>, <<"0", ".">>, <<"0", ".">>, <<"0", ".">>, <<>>),
      JointLine(<<"B">>, <<"1", ".">>, <<"0", ".">>, <<"0", ".">>, <<>>),
      JointLine(<<"C">>, <<"0", ".">>, <<"1", ".">>, <<"0", ".">>, <<>>)>>
    \o (IF code = <<>> THEN <<>> ELSE <<SectLine(<<"S", "1">>, code, <<"4", "0", ".">>, <<"1", ".", "5">>)>>)
    \o <<GrupLine(<<"G", "1">>, section, od, <<"2", ".">>, g),
         MemberLine(<<"A">>, <<"B">>, <<"G", "1">>),
         MemberLine(<<"B">>, <<"C">>, memberGroup)>>

SectionDecks ==
    { SectionDeck(s, c, od, mg, g) :
        s \in {<<>>, <<"X", "Y", "Z">>, <<"S", "1">>},
        c \in {<<>>, <<"T", "U", "B">>, <<"C", "O", "N">>, <<"X", "X", "X">>},
        od \in {<<"5", "0", ".">>, <<"0", ".">>, <<>>},
        mg \in {<<"G", "1">>, <<"G", "9">>},
        g \in {<<"8", ".">>, <<>>} }

\* Joint J; load cases LC1 and LC2, each with one load on J when withLoads;
\* combination CMB1 = f1 * LC1 + f2 * LC2; early is a line put before the
\* first LOADCN; nested adds CMB2 = 3 * CMB1 + LC1 and the self-referring CMB3
LoadDeck(early, withLoads, kind, f1, f2, nested) ==
    early
    \o <<JointLine(<<"J">>, <<"0", ".">>, <<"0", ".">>, <<"0", ".">>, <<>>),
         LoadcnLine(<<"L", "C", "1">>), LoadlbLine(<<"D", "E", "A", "D">>)>>
    \o (IF withLoads THEN <<LoadLine(<<"J">>, <<"1", "0", ".">>, <<>>, kind[1], kind[2])>> ELSE <<>>)
    \o <<LoadcnLine(<<"L", "C", "2">>)>>
    \o (IF withLoads THEN <<LoadLine(<<"J">>, <<>>, <<"5", ".">>, kind[1], kind[2])>> ELSE <<>>)
    \o <<LcombLine(<<"C", "M", "B", "1">>, <<"L", "C", "1">>, f1, <<"L", "C", "2">>, f2)>>
    \o (IF nested
        THEN <<LcombLine(<<"C", "M", "B", "2">>, <<"C", "M", "B", "1">>, <<"3", ".">>, <<"L", "C", "1">>, <<"1", ".">>),
               LcombLine(<<"C", "M", "B", "3">>, <<"C", "M", "B", "3">>, <<"1", ".">>, <<"L", "C", "9">>, <<"1", ".">>)>>
        ELSE <<>>)

LoadKinds ==
    {<<<<"G", "L", "O", "B">>, <<"J", "O", "I", "N">>>>, <<<<"G", "L", "O", "B">>, <<"U", "N", "I", "F">>>>, <<<<"P", "R", "E", "S">>, <<"U", "N", "I", "F">>>>, <<<<"G", "L", "O", "B">>, <<"X", "X", "X", "X">>>>}

EarlyLines ==
    {<<>>, <<LoadLine(<<"J">>, <<"1", ".">>, <<>>, <<"G", "L", "O", "B">>, <<"J", "O", "I", "N">>)>>, <<LoadlbLine(<<"E", "A", "R", "L", "Y">>)>>,
     <<<<"L", "O", "A", "D">>, <<"L", "O", "A", "D", "C", "N">>>>}

\* Joint J; load case LC1 with a label, two joint loads and, between them, a
\* LOAD line of an unknown type; load case LC2 with a label and one load
SeveralLoadsDeck ==
    <<JointLine(<<"J">>, <<"0", ".">>, <<"0", ".">>, <<"0", ".">>, <<>>),
      LoadcnLine(<<"L", "C", "1">>),
      LoadlbLine(<<"D", "E", "A", "D">>),
      LoadLine(<<"J">>, <<"1", "0", ".">>, <<>>, <<"G", "L", "O", "B">>, <<"J", "O", "I", "N">>),
      LoadLine(<<"J">>, <<"7", ".">>, <<>>, <<"G", "L", "O", "B">>, <<"X", "X", "X", "X">>),
      LoadLine(<<"J">>, <<>>, <<"5", ".">>, <<"G", "L", "O", "B">>, <<"J", "O", "I", "N">>),
      LoadcnLine(<<"L", "C", "2">>),
      LoadLine(<<"J">>, <<"3", ".">>, <<>>, <<"G", "L", "O", "B">>, <<"J", "O", "I", "N">>),
      LoadlbLine(<<"L", "I", "V", "E">>)>>

\* Joint J; load cases LC1 and LC2 with one load each; CMB1 of the two
\* cases; CMB2 of CMB1 and the unknown name LC9; CMB4 of CMB2 and LC1; a
\* combination named LC2 like the load case it refers to; CMB5 and CMB6
\* referring to each other; CMB7 of LC1 and CMB5
CombinationDeck ==
    <<JointLine(<<"J">>, <<"0", ".">>, <<"0", ".">>, <<"0", ".">>, <<>>),
      LoadcnLine(<<"L", "C", "1">>),
      LoadLine(<<"J">>, <<"1", "0", ".">>, <<>>, <<"G", "L", "O", "B">>, <<"J", "O", "I", "N">>),
      LoadcnLine(<<"L", "C", "2">>),
      LoadLine(<<"J">>, <<>>, <<"5", ".">>, <<"G", "L", "O", "B">>, <<"J", "O", "I", "N">>),
      LcombLine(<<"C", "M", "B", "1">>, <<"L", "C", "1">>, <<"2", ".", "0">>, <<"L", "C", "2">>, <<"-", "1", ".", "0">>),
      LcombLine(<<"C", "M", "B", "2">>, <<"C", "M", "B", "1">>, <<"3", ".">>, <<"L", "C", "9">>, <<"1", ".">>),
      LcombLine(<<"C", "M", "B", "4">>, <<"C", "M", "B", "2">>, <<"1", ".", "5">>, <<"L", "C", "1">>, <<"1", ".">>),
      LcombLine(<<"L", "C", "2">>, <<"L", "C", "2">>, <<"4", ".">>, <<>>, <<>>),
      LcombLine(<<"C", "M", "B", "5">>, <<"C", "M", "B", "6">>, <<"1", ".">>, <<"L", "C", "1">>, <<"1", ".">>),
      LcombLine(<<"C", "M", "B", "6">>, <<"C", "M", "B", "5">>, <<"2", ".">>, <<>>, <<>>),
      LcombLine(<<"C", "M", "B", "7">>, <<"L", "C", "1">>, <<"1", ".">>, <<"C", "M", "B", "5">>, <<"1", ".">>)>>

LoadDecks ==
    { LoadDeck(e, wl, k, f1, f2, n) :
        e \in EarlyLines, wl \in BOOLEAN, k \in LoadKinds,
        f1 \in {<<"2", ".", "0">>}, f2 \in {<<"-", "1", ".", "0">>, <<"X">>}, n \in BOOLEAN }
        \cup {SeveralLoadsDeck, CombinationDeck}

\* The corners of the unit square, a plate group, an optional PSTIF line of
\* the given type, and one plate over the joints named (d blank for a
\* triangle)
PlateDeck(type, names) ==
    <<JointLine(<<"A">>, <<"0", ".">>, <<"0", ".">>, <<"0", ".">>, <<>>),
      JointLine(<<"B">>, <<"1", ".">>, <<"0", ".">>, <<"0", ".">>, <<>>),
      JointLine(<<"C">>, <<"1", ".">>, <<"1", ".">>, <<"0", ".">>, <<>>),
      JointLine(<<"D">>, <<"0", ".">>, <<"1", ".">>, <<"0", ".">>, <<>>)>>
    \o (IF type = <<>> THEN <<>> ELSE <<PstifLine(type, <<"S", "T", "1">>)>>)
    \o <<PgrupLine(<<"P", "G", "1">>, <<"1", ".", "2">>),
         PlateLine(<<"P", "0", "0", "1">>, names[1], names[2], names[3], names[4], <<"P", "G", "1">>),
         <<"P", "L", "A", "T", "E">>>>

PlateJoints ==
    {<<<<"A">>, <<"B">>, <<"C">>, <<"D">>>>, <<<<"A">>, <<"B">>, <<"D">>, <<"C">>>>, <<<<"A">>, <<"C">>, <<"B">>, <<"D">>>>,
     <<<<"A">>, <<"B">>, <<"C">>, <<>>>>, <<<<"A">>, <<"B">>, <<"C">>, <<"Z">>>>, <<<<"A">>, <<"A">>, <<"C">>, <<"D">>>>}

\* The corners of the unit square with a quadrilateral declared across its
\* diagonal and a triangle two of whose corners are the same joint
TwoPlateDeck ==
    <<JointLine(<<"A">>, <<"0", ".">>, <<"0", ".">>, <<"0", ".">>, <<>>),
      JointLine(<<"B">>, <<"1", ".">>, <<"0", ".">>, <<"0", ".">>, <<>>),
      JointLine(<<"C">>, <<"1", ".">>, <<"1", ".">>, <<"0", ".">>, <<>>),
      JointLine(<<"D">>, <<"0", ".">>, <<"1", ".">>, <<"0", ".">>, <<>>),
      PgrupLine(<<"P", "G", "1">>, <<"1", ".", "2">>),
      PlateLine(<<"P", "0", "0", "1">>, <<"A">>, <<"B">>, <<"D">>, <<"C">>, <<"P", "G", "1">>),
      PlateLine(<<"P", "0", "0", "2">>, <<"A">>, <<"A">>, <<"C">>, <<>>, <<"P", "G", "1">>)>>

PlateDecks ==
    { PlateDeck(t, n) : t \in {<<>>, <<"A", "N", "G">>, <<"T", "E", "E">>}, n \in PlateJoints }
        \cup {TwoPlateDeck}

\* A deck that repeats ids.  Joint j with a spring line after it; the SECT
\* line of id s twice with different dimensions; the GRUP line of id g
\* twice with different diameters; a SECT line whose id is g2 followed by
\* the GRUP line g2 that names no section; the PSTIF line ST1 twice and the
\* PGRUP line of id pg twice with different dimensions
RegistryDeck(j, s, g, g2, pg) ==
    <<JointLine(j, <<"0", ".">>, <<"0", ".">>, <<"0", ".">>, <<>>),
      ElastiLine(j),
      JointLine(<<"K">>, <<"1", ".">>, <<"0", ".">>, <<"0", ".">>, <<>>),
      SectLine(s, <<"T", "U", "B">>, <<"4", "0", ".">>, <<"1", ".", "5">>),
      SectLine(s, <<"T", "U", "B">>, <<"6", "0", ".">>, <<"2", ".", "5">>),
      GrupLine(g, s, <<"5", "0", ".">>, <<"2", ".">>, <<"8", ".">>),
      GrupLine(g, s, <<"7", "0", ".">>, <<"3", ".">>, <<"8", ".">>),
      SectLine(g2, <<"T", "U", "B">>, <<"4", "0", ".">>, <<"1", ".", "5">>),
      GrupLine(g2, <<>>, <<"5", "0", ".">>, <<"2", ".">>, <<"8", ".">>),
      PstifLine(<<"A", "N", "G">>, <<"S", "T", "1">>),
      Card(<< <<0, <<"P", "S", "T", "I", "F">>>>, <<6, <<"A", "N", "G">>>>, <<10, <<"S", "T", "1">>>>, <<20, <<"1", "2", ".">>>>,
              <<34, <<"2", ".">>>>, <<41, <<"2", ".">>>>, <<55, <<"9", ".">>>> >>),
      PgrupLine(pg, <<"1", ".", "2">>),
      PgrupLine(pg, <<"2", ".", "4">>),
      MemberLine(j, <<"K">>, g)>>

\* A deck with a quantity of every kind: a joint with an offset in
\* centimetres and a spring with a displacement rate and a rotation rate, a
\* prismatic section with area, second moments, dimensions and shear areas,
\* a group, a plate group, a member with a density and a diameter, a plate
\* with its own thickness and material, and a joint load
UnitsDeck ==
    <<JointLine(<<"J", "0", "0", "1">>, <<"1", ".">>, <<"0", ".">>, <<"0", ".">>, <<"5", "0", ".">>),
      Card(<< <<0, <<"J", "O", "I", "N", "T">>>>, <<6, <<"J", "0", "0", "1">>>>, <<11, <<"1", "0", "0", ".">>>>, <<32, <<"2", "0", ".">>>>,
              <<54, <<"E", "L", "A", "S", "T", "I">>>> >>),
      JointLine(<<"K">>, <<"0", ".">>, <<"0", ".">>, <<"0", ".">>, <<>>),
      JointLine(<<"L">>, <<"0", ".">>, <<"1", ".">>, <<"0", ".">>, <<>>),
      Card(<< <<0, <<"S", "E", "C", "T">>>>, <<5, <<"P", "R", "1">>>>, <<15, <<"P", "R", "I">>>>, <<18, <<"3", "0", ".">>>>,
              <<24, <<"4", "0", "0", ".">>>>, <<32, <<"5", "0", "0", ".">>>>, <<40, <<"6", "0", "0", ".">>>>, <<49, <<"4", "0", ".">>>>,
              <<55, <<"2", "0", ".">>>>, <<66, <<"1", "2", ".">>>>, <<71, <<"8", ".">>>> >>),
      GrupLine(<<"G", "R", "1">>, <<"P", "R", "1">>, <<"5", "0", ".">>, <<"2", ".">>, <<"8", ".">>),
      PgrupLine(<<"P", "G", "1">>, <<"1", ".", "2">>),
      Card(<< <<0, <<"M", "E", "M", "B", "E", "R">>>>, <<7, <<"J", "0", "0", "1">>>>, <<11, <<"K">>>>, <<16, <<"G", "R", "1">>>>,
              <<64, <<"7", ".", "8", "5">>>>, <<72, <<"6", "0", ".">>>> >>),
      Card(<< <<0, <<"P", "L", "A", "T", "E">>>>, <<6, <<"P", "0", "0", "1">>>>, <<11, <<"J", "0", "0", "1">>>>, <<15, <<"K">>>>,
              <<19, <<"L">>>>, <<27, <<"P", "G", "1">>>>, <<32, <<"1", ".", "5">>>>, <<47, <<"2", "0", ".">>>>,
              <<54, <<".", "3">>>>, <<59, <<"2", "5", ".">>>>, <<69, <<"7", ".", "8", "5">>>> >>),
      LoadcnLine(<<"L", "C", "1">>),
      LoadLine(<<"K">>, <<"1", "0", ".">>, <<"5", ".">>, <<"G", "L", "O", "B">>, <<"J", "O", "I", "N">>)>>

\* Ids shorter than their columns and ids that fill them
RegistryDecks ==
    { RegistryDeck(<<"J", "1">>, <<"S", "1">>, <<"G", "1">>, <<"G", "2">>, <<"P", "1">>),
      RegistryDeck(<<"J", "0", "0", "1">>, <<"S", "E", "C", "T", "0", "0", "1">>, <<"G", "R", "1">>, <<"G", "R", "2">>, <<"P", "G", "1">>) }

\* A deck whose numeric fields hold v: a coordinate of joint A, a
\* dimension of section S1, the wall thickness of group G1 and the
\* thickness of plate group PG1
FieldsDeck(v) ==
    <<JointLine(<<"A">>, <<"0", ".">>, v, <<"0", ".">>, <<>>),
      JointLine(<<"B">>, <<"1", ".">>, <<"0", ".">>, <<"0", ".">>, <<>>),
      SectLine(<<"S", "1">>, <<"T", "U", "B">>, <<"4", "0", ".">>, v),
      GrupLine(<<"G", "1">>, <<>>, <<"5", "0", ".">>, v, <<"8", ".">>),
      PgrupLine(<<"P", "G", "1">>, v),
      MemberLine(<<"A">>, <<"B">>, <<"G", "1">>)>>

FieldsDecks == { FieldsDeck(<<>>), FieldsDeck(<<"0">>), FieldsDeck(<<"X">>) }

\* Joints A, B, C, the group G1 with member A-B, and a plate group of the
\* name pg (Poisson's ratio .3, where the group's is .25) with the plate
\* P001 over the three joints
SharedNameDeck(pg) ==
    <<JointLine(<<"A">>, <<"0", ".">>, <<"0", ".">>, <<"0", ".">>, <<>>),
      JointLine(<<"B">>, <<"1", ".">>, <<"0", ".">>, <<"0", ".">>, <<>>),
      JointLine(<<"C">>, <<"1", ".">>, <<"1", ".">>, <<"0", ".">>, <<>>),
      GrupLine(<<"G", "1">>, <<>>, <<"5", "0", ".">>, <<"2", ".">>, <<"8", ".">>),
      PgrupLine(pg, <<"1", ".", "2">>),
      MemberLine(<<"A">>, <<"B">>, <<"G", "1">>),
      PlateLine(<<"P", "0", "0", "1">>, <<"A">>, <<"B">>, <<"C">>, <<>>, pg)>>

SharedNameDecks == { SharedNameDeck(<<"G", "1">>), SharedNameDeck(<<"P", "G", "1">>) }

\* The input of a call of parse_sacs_file
Decks ==
    GeometryDecks \cup SectionDecks \cup LoadDecks \cup PlateDecks
        \cup RegistryDecks \cup {UnitsDeck} \cup FieldsDecks
        \cup SharedNameDecks

\* The input of a later call in the same process
RepeatDecks ==
    { GeometryDeck(<<"C", "B", "A">>, FALSE, FALSE, <<>>, FALSE),
      SectionDeck(<<"S", "1">>, <<"T", "U", "B">>, <<"5", "0", ".">>, <<"G", "1">>, <<"8", ".">>) }


---------------------------------------------------------------------------
(* The conversion: parse_sacs_file, merge_small_members,                    *)
(* write_abaqus_input, to_dict and to_basic as a caller runs them           *)

\* The number of calls of parse_sacs_file in one process
MaxCalls == 2

NoExc == [type |-> "none", in |-> "none"]

\* to_dict not called: [arg, d] is the argument and the value returned
NoDict == [arg |-> NoAttr, d |-> EmptyDict]

NoBasic ==
    [pc |-> "idle", lcm |-> <<>>, exc |-> "none", case |-> LOADCASE,
     warnings |-> <<>>]

GFIdle == gf_arg = <<>> /\ gf_ret = False /\ gf_pc = "idle"

OJIdle ==
    /\ oj_arg = <<>> /\ oj_ret = [exc |-> "none", jlist |-> <<>>]
    /\ oj_again = [exc |-> "none", jlist |-> <<>>] /\ oj_pc = "idle"

GeoIdle ==
    /\ geo_a = NoVector /\ geo_b = NoVector /\ geo_cross = NoVector
    /\ geo_first = ZeroDivision /\ geo_csys = ZeroDivision
    /\ geo_angle = 0 /\ geo_turns = 0 /\ geo_op = "none" /\ geo_pc = "idle"

PLIdle ==
    /\ input = <<>> /\ pos = 0 /\ calls = 0 /\ write_secondary = FALSE
    /\ sacs = SacsStructure /\ pc = "idle" /\ exc = NoExc /\ files = NoFiles
    /\ log = <<>> /\ dict = NoDict /\ basic = NoBasic

\* parse_sacs_file is called on a file in a new process
Init ==
    /\ input \in Decks
    /\ pos = 0
    /\ calls = 1
    /\ write_secondary \in BOOLEAN
    /\ sacs = SacsStructure
    /\ pc = "parse"
    /\ exc = NoExc
    /\ files = NoFiles
    /\ log = <<>>
    /\ dict = NoDict
    /\ basic = NoBasic
    /\ GFIdle
    /\ OJIdle
    /\ GeoIdle

\* The outcome r = [exc, stru] of the body of the loop over the lines
LineOutcome(r) ==
    IF r.exc = "none"
    THEN /\ sacs' = r.stru
         /\ pos' = pos + 1
         /\ UNCHANGED <<pc, exc>>
    ELSE /\ pc' = "raised"
         /\ exc' = [type |-> r.exc, in |-> "parse"]
         /\ UNCHANGED <<sacs, pos>>

\* One pass of the loop over the lines
ParseNextLine ==
    /\ pc = "parse"
    /\ pos < Len(input)
    /\ LineOutcome(ParseLine(sacs, input[pos + 1]))
    /\ UNCHANGED <<input, calls, write_secondary, files, log, dict, basic,
                   gf_vars, oj_vars, geo_vars>>

\* return stru
ParseReturn ==
    /\ pc = "parse"
    /\ pos = Len(input)
    /\ pc' = "parsed"
    /\ UNCHANGED <<input, pos, calls, write_secondary, sacs, exc, files, log,
                   dict, basic, gf_vars, oj_vars, geo_vars>>

\* A later call of parse_sacs_file in the same process: stru = SacsStructure()
\* has no attributes of its own, so it reads the containers of the class,
\* which the earlier call filled in place; abq_n and load_case were rebound
\* on the earlier instance and are 0 and "" on the class.
ParseAgain ==
    /\ pc = "parsed"
    /\ calls < MaxCalls
    /\ input' \in RepeatDecks
    /\ pos' = 0
    /\ calls' = calls + 1
    /\ sacs' = [sacs EXCEPT !.abq_n = 0, !.load_case = <<>>]
    /\ pc' = "parse"
    /\ UNCHANGED <<write_secondary, exc, files, log, dict, basic,
                   gf_vars, oj_vars, geo_vars>>

\* The outcome of a stage that returns [exc, stru] or [exc, stru, out]
Outcome(r, stage, next) ==
    /\ sacs' = r.stru
    /\ IF r.exc = "none"
       THEN pc' = next /\ exc' = exc
       ELSE pc' = "raised" /\ exc' = [type |-> r.exc, in |-> stage]

MergeSmallMembers ==
    /\ pc = "parsed"
    /\ Outcome(merge_small_members(sacs), "merge_small_members", "merged")
    /\ UNCHANGED <<input, pos, calls, write_secondary, files, log, dict, basic,
                   gf_vars, oj_vars, geo_vars>>

\* A stage of write_abaqus_input
Writer(r, stage, next) ==
    /\ Outcome(r, stage, next)
    /\ files' = r.out
    /\ UNCHANGED <<input, pos, calls, write_secondary, log, dict, basic,
                   gf_vars, oj_vars, geo_vars>>

WriteNodes ==
    /\ pc \in {"parsed", "merged"}
    /\ Writer(write_nodes(sacs, files), "write_nodes", "nodes")

WriteElements ==
    /\ pc = "nodes"
    /\ Writer(write_elements(sacs, files), "write_elements", "elements")

WriteSets ==
    /\ pc = "elements"
    /\ Writer(write_sets(sacs, files), "write_sets", "sets")

WriteBeamSections ==
    /\ pc = "sets"
    /\ Writer(write_beam_sections(sacs, files), "write_beam_sections",
              "beam_sections")

WritePlateSections ==
    /\ pc = "beam_sections"
    /\ Writer(write_plate_sections(sacs, files), "write_plate_sections",
              IF write_secondary THEN "plate_sections" ELSE "written")

WriteNodeMap ==
    /\ pc = "plate_sections"
    /\ Writer(write_node_map(sacs, files), "write_node_map", "node_map")

WriteElementMap ==
    /\ pc = "node_map"
    /\ Writer(write_element_map(sacs, files), "write_element_map", "element_map")

\* try: write_loads(...) except Exception as e: the error is logged
LoadsOutcome(r) ==
    /\ files' = r.out
    /\ log' = IF r.exc = "none" THEN log
              ELSE Append(log, [type |-> r.exc, in |-> "write_loads"])

WriteLoads ==
    /\ pc = "element_map"
    /\ LoadsOutcome(write_loads(sacs, files))
    /\ pc' = "written"
    /\ UNCHANGED <<input, pos, calls, write_secondary, sacs, exc, dict, basic,
                   gf_vars, oj_vars, geo_vars>>

\* write_iges(stru, filename), called on the structure as it was parsed
WriteIges ==
    /\ pc = "parsed"
    /\ Writer(write_iges(sacs, files), "write_iges", "iges")

\* The load cases to_dict may be asked the masses of
MassLoadcases == {NoAttr, <<"C", "M", "B", "1">>}

\* The outcome r = [exc, d] of to_dict(mass_loadcase)
DictOutcome(r, mass_loadcase) ==
    /\ dict' = [arg |-> mass_loadcase, d |-> r.d]
    /\ IF r.exc = "none"
       THEN pc' = "done" /\ exc' = exc
       ELSE pc' = "raised" /\ exc' = [type |-> r.exc, in |-> "to_dict"]

ToDict ==
    /\ pc = "written"
    /\ \E mass_loadcase \in MassLoadcases :
          DictOutcome(to_dict(sacs, mass_loadcase), mass_loadcase)
    /\ UNCHANGED <<input, pos, calls, write_secondary, sacs, files, log, basic,
                   gf_vars, oj_vars, geo_vars>>

\* The outcome r = [exc, case, warnings] of to_basic on the combination lcm
BasicOutcome(r, lcm) ==
    basic' = [pc |-> "returned", lcm |-> lcm, exc |-> r.exc, case |-> r.case,
              warnings |-> r.warnings]

\* sacs.lcombs[lcm].to_basic(sacs.loadcases, sacs.lcombs)
ToBasic ==
    /\ pc = "parsed"
    /\ basic.pc = "idle"
    /\ \E i \in 1..Len(sacs.lcombs) :
          BasicOutcome(to_basic(sacs.lcombs[i].v, sacs.loadcases, sacs.lcombs),
                       sacs.lcombs[i].k)
    /\ UNCHANGED <<input, pos, calls, write_secondary, sacs, pc, exc, files, log,
                   dict, gf_vars, oj_vars, geo_vars>>

Next ==
    \/ ParseNextLine
    \/ ParseReturn
    \/ ParseAgain
    \/ MergeSmallMembers
    \/ WriteNodes
    \/ WriteElements
    \/ WriteSets
    \/ WriteBeamSections
    \/ WritePlateSections
    \/ WriteNodeMap
    \/ WriteElementMap
    \/ WriteLoads
    \/ ToDict
    \/ ToBasic
    \/ WriteIges

Spec == Init /\ [][Next]_vars
---------------------------------------------------------------------------
(* The fields GetFloat is exercised on: blanks, sign, mantissa, exponent    *)

PadSet == {<<>>, <<" ">>}
SignSet == {<<>>, <<"-">>, <<"+">>}
MantSet == {<<>>, <<"1">>, <<"0">>, <<"1", ".", "2", "3">>, <<".", "5">>,
            <<"1", "2", ".">>, <<".">>, <<"X">>, <<"5", "0">>}
ExpSet == {<<>>, <<"-", "2">>, <<"+", "2">>, <<"E", "-", "2">>, <<"E", "2">>,
           <<"e", "+", "2">>, <<"E", "+", "2">>, <<"-", "2", "-", "3">>,
           <<"E">>, <<"-">>, <<"-", "7">>}

GetFloatFields ==
    { p \o sg \o mt \o ex \o q :
        p \in PadSet, sg \in SignSet, mt \in MantSet, ex \in ExpSet, q \in PadSet }


GFInit ==
    /\ gf_arg \in GetFloatFields
    /\ gf_ret = False
    /\ gf_pc = "ready"
    /\ OJIdle
    /\ PLIdle
    /\ GeoIdle

GetFloatCall ==
    /\ gf_pc = "ready"
    /\ gf_ret' = GetFloat(gf_arg)
    /\ gf_pc' = IF Uncaught(PyFloat(RepairExponent(Strip(gf_arg))))
               THEN "raised" ELSE "returned"
    /\ UNCHANGED <<gf_arg, oj_vars, pl_vars, geo_vars>>

GFNext == GetFloatCall

SpecGetFloat == GFInit /\ [][GFNext]_vars

\* The joints OrderJoints is exercised on: grid points of the plane z = 0
GridMax == 2

GridJoints ==
    { [ID |-> <<"P">>, ABQID |-> 1 + gx + (GridMax + 1) * gy,
       x |-> Float(gx, 0), y |-> Float(gy, 0), z |-> Zero] :
        gx \in 0..GridMax, gy \in 0..GridMax }

OJInit ==
    /\ oj_arg \in { <<a, b, c, d>> : a \in GridJoints, b \in GridJoints,
                                     c \in GridJoints, d \in GridJoints }
    /\ Cardinality({oj_arg[i] : i \in 1..4}) = 4
    /\ oj_ret = [exc |-> "none", jlist |-> <<>>]
    /\ oj_again = [exc |-> "none", jlist |-> <<>>]
    /\ oj_pc = "ready"
    /\ GFIdle
    /\ PLIdle
    /\ GeoIdle

OrderJointsCall ==
    /\ oj_pc = "ready"
    /\ oj_ret' = OrderJoints(oj_arg)
    /\ oj_pc' = "returned"
    /\ UNCHANGED <<oj_arg, oj_again, gf_vars, pl_vars, geo_vars>>

\* OrderJoints is called on the list it returned
OrderJointsAgain ==
    /\ oj_pc = "returned"
    /\ oj_ret.exc = "none"
    /\ oj_again' = OrderJoints(oj_ret.jlist)
    /\ oj_pc' = "reapplied"
    /\ UNCHANGED <<oj_arg, oj_ret, gf_vars, pl_vars, geo_vars>>

OJNext == OrderJointsCall \/ OrderJointsAgain

SpecOrderJoints == OJInit /\ [][OJNext]_vars


---------------------------------------------------------------------------
(* geom3.py exercised on its own: Vector3.cross, BeamCSys(x, y),           *)
(* BeamCSys.from_sacs_points and BeamCSys.rotated_about_x                  *)

\* The vectors: the points of a grid around the origin, the three vectors of
\* test_vector3_cross, and the upper end of a pile that leans by 1 mm over 1 m
GeoMax == 1

GeoGrid ==
    { Vector3(Float(gx, 0), Float(gy, 0), Float(gz, 0)) :
        gx \in -GeoMax..GeoMax, gy \in -GeoMax..GeoMax, gz \in -GeoMax..GeoMax }

Leaning == Vector3(Zero, Float(1, -3), One)

TestA == Vector3(Float(2, 0), Zero, Zero)

TestB == Vector3(Zero, Float(5, 0), Zero)

TestC == Vector3(Zero, Zero, Float(3, 0))

GeoVectors == GeoGrid \cup {TestA, TestB, TestC, Leaning}

\* The angles in degrees, and the number of rotations by one angle applied
\* in a row
Angles == {-90, 45, 90}

MaxTurns == 4

GeoInit ==
    /\ geo_a \in GeoVectors
    /\ geo_b \in GeoVectors
    /\ geo_cross = NoVector
    /\ geo_first = ZeroDivision
    /\ geo_csys = ZeroDivision
    /\ geo_angle \in Angles
    /\ geo_turns = 0
    /\ geo_op = "none"
    /\ geo_pc = "ready"
    /\ GFIdle
    /\ OJIdle
    /\ PLIdle

\* geo_a.cross(geo_b)
CrossCall ==
    /\ geo_pc = "ready"
    /\ geo_cross' = cross(geo_a, geo_b)
    /\ geo_op' = "cross"
    /\ geo_pc' = "returned"
    /\ UNCHANGED <<geo_a, geo_b, geo_first, geo_csys, geo_angle, geo_turns,
                   gf_vars, oj_vars, pl_vars>>

\* The frame c has been constructed, or its construction has raised
Constructed(c) ==
    /\ geo_first' = c
    /\ geo_csys' = c
    /\ geo_pc' = IF c.exc = "none" THEN "returned" ELSE "raised"
    /\ UNCHANGED <<geo_a, geo_b, geo_cross, geo_angle, geo_turns,
                   gf_vars, oj_vars, pl_vars>>

\* BeamCSys(geo_a, geo_b)
BeamCSysCall ==
    /\ geo_pc = "ready"
    /\ geo_op' = "BeamCSys"
    /\ Constructed(BeamCSys_init(geo_a, geo_b, None))

\* BeamCSys.from_sacs_points(geo_a, geo_b)
FromSacsPointsCall ==
    /\ geo_pc = "ready"
    /\ geo_op' = "from_sacs_points"
    /\ Constructed(from_sacs_points(geo_a, geo_b))

\* The frame c is returned by a rotation
Rotated(c) ==
    /\ geo_a' = NoVector
    /\ geo_b' = NoVector
    /\ geo_csys' = c
    /\ geo_turns' = geo_turns + 1
    /\ geo_op' = "rotated_about_x"
    /\ geo_pc' = IF c.exc = "none" THEN "returned" ELSE "raised"
    /\ UNCHANGED <<geo_cross, geo_first, geo_angle, gf_vars, oj_vars,
                   pl_vars>>

\* geo_csys.rotated_about_x(geo_angle), up to MaxTurns times in a row
RotatedAboutXCall ==
    /\ geo_pc = "returned"
    /\ geo_op # "cross"
    /\ geo_turns < MaxTurns
    /\ Rotated(rotated_about_x(geo_csys, geo_angle))

GeoNext ==
    \/ CrossCall
    \/ BeamCSysCall
    \/ FromSacsPointsCall
    \/ RotatedAboutXCall

SpecGeom3 == GeoInit /\ [][GeoNext]_vars

---------------------------------------------------------------------------
(* Plane geometry used to state the claims about quadrilaterals (z = 0)    *)

\* Twice the signed area of the triangle a, b, c
Orient(a, b, c) ==
    LET v == Sub(Mul(Sub(b.x, a.x), Sub(c.y, a.y)),
                 Mul(Sub(b.y, a.y), Sub(c.x, a.x)))
    IN  IF v.m > 0 THEN 1 ELSE IF v.m < 0 THEN -1 ELSE 0

Between(lo, v, hi) == ~Lt(v, lo) /\ ~Lt(hi, v)

\* c is on the closed segment a-b, given that a, b, c are collinear
OnSegment(a, b, c) ==
    /\ (Between(a.x, c.x, b.x) \/ Between(b.x, c.x, a.x))
    /\ (Between(a.y, c.y, b.y) \/ Between(b.y, c.y, a.y))

\* The closed segments a-b and c-d have a common point
SegmentsMeet(a, b, c, d) ==
    LET o1 == Orient(a, b, c)
        o2 == Orient(a, b, d)
        o3 == Orient(c, d, a)
        o4 == Orient(c, d, b)
    IN  \/ (o1 # o2 /\ o3 # o4)
        \/ (o1 = 0 /\ OnSegment(a, b, c))
        \/ (o2 = 0 /\ OnSegment(a, b, d))
        \/ (o3 = 0 /\ OnSegment(c, d, a))
        \/ (o4 = 0 /\ OnSegment(c, d, b))

\* The polygon q[1] q[2] q[3] q[4] is simple: no two opposite edges meet
SimpleQuad(q) ==
    /\ ~SegmentsMeet(q[1], q[2], q[3], q[4])
    /\ ~SegmentsMeet(q[2], q[3], q[4], q[1])

Perms4 == { p \in [1..4 -> 1..4] : \A i, j \in 1..4 : i # j => p[i] # p[j] }

\* No three of the four joints are collinear
NoThreeCollinear(q) ==
    \A i, j, k \in 1..4 :
        (i < j /\ j < k) => Orient(q[i], q[j], q[k]) # 0

\* The four joints are the corners of a simple quadrilateral in some order
SimpleInSomeOrder(q) ==
    /\ NoThreeCollinear(q)
    /\ \E p \in Perms4 : SimpleQuad(<<q[p[1]], q[p[2]], q[p[3]], q[p[4]]>>)

\* C2: for four distinct coplanar joints that are the corners of a simple
\* quadrilateral in some order, and every declared order of them, the order
\* OrderJoints returns is a simple polygon (no two opposite edges cross).
C2_OutputIsSimple ==
    (oj_pc = "returned" /\ SimpleInSomeOrder(oj_arg))
        => (oj_ret.exc = "none" /\ SimpleQuad(oj_ret.jlist))

\* C4: GetFloat repairs SACS exponent notation: "1.23-2" decodes to 0.0123,
\* "-1.23-2" to -0.0123 (the leading sign is kept), "1.23+2" to 123 and the
\* well-formed "1.23E-2" to 0.0123.
C4_ExponentRepair ==
    gf_pc = "returned" =>
        /\ (gf_arg = <<"1", ".", "2", "3", "-", "2">> => gf_ret = Float(123, -4))
        /\ (gf_arg = <<"-", "1", ".", "2", "3", "-", "2">>
                => gf_ret = Float(-123, -4))
        /\ (gf_arg = <<"1", ".", "2", "3", "+", "2">> => gf_ret = Float(123, 0))
        /\ (gf_arg = <<"1", ".", "2", "3", "E", "-", "2">>
                => gf_ret = Float(123, -4))


---------------------------------------------------------------------------
(* The stages of the conversion, as the claims refer to them               *)

RaisedIn(stage) == pc = "raised" /\ exc.in = stage

MergeEnded == pc = "merged" \/ RaisedIn("merge_small_members")

\* write_beam_sections has returned
AfterBeamSections ==
    \/ pc \in {"beam_sections", "plate_sections", "node_map", "element_map",
               "written", "done"}
    \/ RaisedIn("to_dict")

\* write_loads has returned or its exception has been logged
AfterLoads ==
    write_secondary /\ (pc \in {"written", "done"} \/ RaisedIn("to_dict"))

\* The member with key m joins two known, distinct joints less than
\* LENGTH_TOL apart
Degenerate(m) ==
    LET mem == Get(sacs.members, m)
    IN  /\ Has(sacs.joints, mem.jointA) /\ Has(sacs.joints, mem.jointB)
        /\ mem.jointA # mem.jointB
        /\ LengthLt(VSub(as_vector(Get(sacs.joints, mem.jointA)),
                         as_vector(Get(sacs.joints, mem.jointB))), LENGTH_TOL)

DegenerateMembers == { i \in 1..Len(sacs.members) : Degenerate(sacs.members[i].k) }

TargetId(name) == Get(sacs.joints, name).ABQID

\* The node-map entry of the joint name carries MERGED WITH id
Annotated(name, id) ==
    \E i \in 1..Len(sacs.nmap) :
        /\ sacs.nmap[i].items[2] = name
        /\ Len(sacs.nmap[i].items) = 3
        /\ sacs.nmap[i].items[3] = <<"MERGED WITH", id>>

\* C1: with one member A-B whose joints are less than 1e-6 apart,
\* merge_small_members completes, B's target id equals A's, the number of
\* distinct target ids is one less than the number of joints, and B's
\* node-map entry carries the MERGED WITH annotation.
C1_MergeOfTwoNearJoints ==
    (MergeEnded /\ Cardinality(DegenerateMembers) = 1) =>
        \A i \in DegenerateMembers :
            LET mem == sacs.members[i].v
            IN  /\ pc = "merged"
                /\ TargetId(mem.jointB) = TargetId(mem.jointA)
                /\ Cardinality({ sacs.joints[j].v.ABQID : j \in 1..Len(sacs.joints) })
                      = Len(sacs.joints) - 1
                /\ Annotated(mem.jointB, TargetId(mem.jointA))

\* C9: with degenerate members M1 = A-B and M2 = B-C, M1 before M2,
\* merge_small_members leaves C with the target id of A.
C9_ChainedMergesCollapse ==
    MergeEnded =>
        \A i, j \in DegenerateMembers :
            (i < j /\ sacs.members[i].v.jointB = sacs.members[j].v.jointA) =>
                /\ pc = "merged"
                /\ TargetId(sacs.members[j].v.jointB)
                      = TargetId(sacs.members[i].v.jointA)

\* A JOINT geometry line: a JOINT line that is not the bare keyword and does
\* not carry ELASTI in columns 54-60
IsGeometryLine(l0) ==
    LET l == Pad80(l0)
    IN  /\ Slice(l, 0, 5) = <<"J", "O", "I", "N", "T">>
        /\ RStrip(l) # <<"J", "O", "I", "N", "T">>
        /\ Slice(l, 54, 60) # <<"E", "L", "A", "S", "T", "I">>

GeometryLines == SelectSeq(SubSeq(input, 1, pos), IsGeometryLine)

JointName(l0) == Strip(Slice(Pad80(l0), 6, 10))

\* C10: the k-th JOINT geometry line scanned by a call of parse_sacs_file
\* gets target id k, and the k-th node-map entry is (k, its joint's name).
C10_SequentialIds ==
    pc \in {"parse", "parsed"} =>
        \A k \in 1..Len(GeometryLines) :
            LET name == JointName(GeometryLines[k])
            IN  /\ Len(sacs.nmap) >= k
                /\ sacs.nmap[k].items = <<k, name>>
                /\ (\A n \in (k + 1)..Len(GeometryLines) :
                        JointName(GeometryLines[n]) # name)
                      => TargetId(name) = k

\* C5: parse_sacs_file raises on no sequence of lines.
C5_ParseNeverAborts == ~RaisedIn("parse")

---------------------------------------------------------------------------
(* Flattening of load combinations                                         *)

ZeroLoad == [i \in 1..6 |-> Zero]

AddLoadVectors(u, v) == [i \in 1..6 |-> Add(u[i], v[i])]

\* The sum over loads[i..] of factor * load for the loads on joint
RECURSIVE SumOfCase(_, _, _, _)
SumOfCase(loads, joint, factor, i) ==
    IF i > Len(loads) THEN ZeroLoad
    ELSE AddLoadVectors(
            IF loads[i].joint = joint
            THEN [d \in 1..6 |-> Mul(factor, loads[i].load[d])] ELSE ZeroLoad,
            SumOfCase(loads, joint, factor, i + 1))

\* The sum over the (name, factor) entries[i..] that name load cases
RECURSIVE SumOfCombination(_, _, _)
SumOfCombination(entries, joint, i) ==
    IF i > Len(entries) THEN ZeroLoad
    ELSE AddLoadVectors(
            IF Has(sacs.loadcases, entries[i][1])
            THEN SumOfCase(Get(sacs.loadcases, entries[i][1]).loads, joint,
                           entries[i][2], 1)
            ELSE ZeroLoad,
            SumOfCombination(entries, joint, i + 1))

\* The joints loaded by the load cases that entries name
LoadedJoints(entries) ==
    { l.joint : l \in UNION { { Get(sacs.loadcases, entries[i][1]).loads[n] :
                                  n \in 1..Len(Get(sacs.loadcases, entries[i][1]).loads) } :
                              i \in { e \in 1..Len(entries) :
                                        Has(sacs.loadcases, entries[e][1]) } } }

\* The combination names load cases only, with numeric factors, and every
\* load of these cases is a joint load
PlainCombination(entries) ==
    /\ \A i \in 1..Len(entries) :
          /\ Has(sacs.loadcases, entries[i][1])
          /\ entries[i][2].ty = "float"
    /\ \A j \in LoadedJoints(entries) : j # NoAttr

\* C3: flattening a combination gives one load per joint, the sum of the
\* factor-scaled loads of the referenced cases on that joint, from to_basic
\* and in the combination block of write_loads.
C3_FlatteningSumsPerJoint ==
    /\ (basic.pc = "returned"
          /\ PlainCombination(Get(sacs.lcombs, basic.lcm).loadcases)) =>
          LET entries == Get(sacs.lcombs, basic.lcm).loadcases
              loads == basic.case.loads
          IN  /\ basic.exc = "none"
              /\ \A i, j \in 1..Len(loads) :
                    loads[i].joint = loads[j].joint => i = j
              /\ { loads[i].joint : i \in 1..Len(loads) } = LoadedJoints(entries)
              /\ \A i \in 1..Len(loads) :
                    loads[i].load = SumOfCombination(entries, loads[i].joint, 1)
    /\ AfterLoads =>
          \A c \in 1..Len(sacs.lcombs) :
              LET entries == sacs.lcombs[c].v.loadcases
              IN  (PlainCombination(entries) /\ LoadedJoints(entries) # {}) =>
                    \E k \in 1..Len(files.loads) :
                        /\ files.loads[k].t = "combination"
                        /\ files.loads[k].name = sacs.lcombs[c].k
                        /\ \A j \in LoadedJoints(entries) :
                              \E n \in 1..Len(files.loads[k].cload) :
                                  files.loads[k].cload[n] =
                                      <<TargetId(j), SumOfCombination(entries, j, 1)>>


---------------------------------------------------------------------------
(* Section assignment                                                      *)

\* write_beam_sections has returned or raised
BeamSectionsEnded == AfterBeamSections \/ RaisedIn("write_beam_sections")

MemberElset(m) == <<"M-", ReplaceDot(m)>>

HasSectionBlock(m) ==
    \E k \in 1..Len(files.inp) :
        files.inp[k].t = "beam_section" /\ files.inp[k].elset = MemberElset(m)

HasOrientation(m) ==
    \E k \in 1..Len(files.inp) :
        files.inp[k].t = "orientation" /\ files.inp[k].elset = MemberElset(m)

IsMissing(m) ==
    \E k \in 1..Len(sacs.missing_sect_members) : sacs.missing_sect_members[k] = m

\* C6: a member whose group names a section id that is not in the section
\* table, the group's OD and thickness being non-zero, gets from
\* write_beam_sections a pipe section of radius OD / 2 and the group's
\* thickness, without an exception, and is not reported missing.
C6_FallbackToInlinePipe ==
    BeamSectionsEnded =>
        \A i \in 1..Len(sacs.members) :
            LET m == sacs.members[i].k
                g == sacs.members[i].v.group
            IN  (/\ Has(sacs.grups, g)
                 /\ Get(sacs.grups, g).section # <<>>
                 /\ ~Has(sacs.sects, Get(sacs.grups, g).section)
                 /\ NonZero(Get(sacs.grups, g).OD)
                 /\ NonZero(Get(sacs.grups, g).thickness)) =>
                    /\ ~RaisedIn("write_beam_sections")
                    /\ \E k \in 1..Len(files.inp) :
                          /\ files.inp[k].t = "beam_section"
                          /\ files.inp[k].elset = MemberElset(m)
                          /\ files.inp[k].section = "PIPE"
                          /\ files.inp[k].params =
                                <<Half(Get(sacs.grups, g).OD),
                                  Get(sacs.grups, g).thickness>>
                    /\ ~IsMissing(m)

\* The GRUP line that registers its group id names no section and gives a
\* zero or blank outer diameter
IsUnassignableGrupLine(i) ==
    LET l == Pad80(input[i])
    IN  /\ Slice(l, 0, 4) = <<"G", "R", "U", "P">> /\ RStrip(l) # <<"G", "R", "U", "P">>
        /\ \A n \in 1..(i - 1) :
              ~(/\ Slice(Pad80(input[n]), 0, 4) = <<"G", "R", "U", "P">>
                /\ Slice(Pad80(input[n]), 5, 8) = Slice(l, 5, 8))
        /\ Strip(Slice(l, 9, 16)) = <<>>
        /\ ~NonZero(Scaled(Slice(l, 17, 23), -2))

UnassignableGroups ==
    { Strip(Slice(Pad80(input[i]), 5, 8)) :
        i \in { n \in 1..Len(input) : IsUnassignableGrupLine(n) } }

\* C7: a member whose group has no named section and a zero or blank OD
\* gets no beam-section block and no orientation line from
\* write_beam_sections and is recorded in the missing-sections set.
C7_ZeroDiameterUnassignable ==
    (calls = 1 /\ BeamSectionsEnded) =>
        \A i \in 1..Len(sacs.members) :
            sacs.members[i].v.group \in UnassignableGroups =>
                /\ ~HasSectionBlock(sacs.members[i].k)
                /\ ~HasOrientation(sacs.members[i].k)
                /\ IsMissing(sacs.members[i].k)

\* The members whose group is not in the groups table
Orphans ==
    { i \in 1..Len(sacs.members) : ~Has(sacs.grups, sacs.members[i].v.group) }

IsGrouped(kv) == Has(sacs.grups, kv.v.group)

WithoutOrphans == [sacs EXCEPT !.members = SelectSeq(@, IsGrouped)]

\* C8: with a member whose group is not in the groups table, write_elements,
\* write_sets, write_beam_sections and to_dict complete (to_dict raises only
\* if it also raises without such members), and the member is in the
\* missing-sections set after write_beam_sections.
C8_UnknownGroupNotFatal ==
    Orphans # {} =>
        /\ ~RaisedIn("write_elements")
        /\ ~RaisedIn("write_sets")
        /\ ~RaisedIn("write_beam_sections")
        /\ RaisedIn("to_dict") => to_dict(WithoutOrphans, dict.arg).exc # "none"
        /\ AfterBeamSections =>
              \A i \in Orphans : IsMissing(sacs.members[i].k)


---------------------------------------------------------------------------
(* The scan of the lines: what one pass of the loop does to the tables     *)

\* The loop of parse_sacs_file is about to read a line
Scanning == pc = "parse" /\ pos < Len(input)

\* The padded line the loop reads next
NextLine == Pad80(input[pos + 1])

IsSectLine(l) == RStrip(l) # <<"S", "E", "C", "T">> /\ Slice(l, 0, 4) = <<"S", "E", "C", "T">>

IsGrupLine(l) == RStrip(l) # <<"G", "R", "U", "P">> /\ Slice(l, 0, 4) = <<"G", "R", "U", "P">>

IsPgrupLine(l) == RStrip(l) # <<"P", "G", "R", "U", "P">> /\ Slice(l, 0, 5) = <<"P", "G", "R", "U", "P">>

IsPstifLine(l) == Strip(l) # <<"P", "S", "T", "I", "F">> /\ Slice(l, 0, 5) = <<"P", "S", "T", "I", "F">>

IsElastiLine(l) ==
    RStrip(l) # <<"J", "O", "I", "N", "T">> /\ Slice(l, 0, 5) = <<"J", "O", "I", "N", "T">> /\ Slice(l, 54, 60) = <<"E", "L", "A", "S", "T", "I">>

\* The id a SECT line, a GRUP line and a PGRUP line register their record under
SectId(l) == Strip(Slice(l, 5, 12))

GrupId(l) == Strip(Slice(l, 5, 8))

PgrupId(l) == Strip(Slice(l, 6, 9))

\* The section table holds, under id, a section read from a SECT line
\* (no group of that id is registered, so it is not an inline section)
SectionFromSectLine(id) ==
    /\ Has(sacs.sects, id)
    /\ Get(sacs.sects, id).cls = "SECT"
    /\ ~Has(sacs.grups, id)

\* C11: a SECT line whose id is already in the section table, and a GRUP
\* line whose id is already in the group table, is ignored (the aggregate
\* is left as it was), whatever the length of the id; and a GRUP line
\* leaves a section that was read from a SECT line of the same id in place.
C11_SectGrupFirstOccurrenceOnly ==
    [][Scanning =>
        /\ (IsSectLine(NextLine) /\ Has(sacs.sects, SectId(NextLine)))
              => sacs' = sacs
        /\ (IsGrupLine(NextLine) /\ Has(sacs.grups, GrupId(NextLine)))
              => sacs' = sacs
        /\ (IsGrupLine(NextLine) /\ SectionFromSectLine(GrupId(NextLine)))
              => /\ Has(sacs'.sects, GrupId(NextLine))
                 /\ Get(sacs'.sects, GrupId(NextLine))
                        = Get(sacs.sects, GrupId(NextLine))]_vars

\* The thickness, the material constants and the stiffener fields of a
\* plate group
PgrupFields(pg) ==
    <<pg.thickness, pg.E, pg.v, pg.FY, pg.density, pg.stiffener_section,
      pg.stiffener_spacing, pg.stiffener_direction, pg.stiffener_placement>>

\* C12: a PGRUP line whose id is already in the plate-group table leaves
\* the thickness, the material constants and the stiffener fields stored
\* under that id as they were.
C12_PgrupFirstOccurrenceOnly ==
    [][(Scanning /\ IsPgrupLine(NextLine)
            /\ Has(sacs.pgrups, PgrupId(NextLine)))
        => /\ Has(sacs'.pgrups, PgrupId(NextLine))
           /\ PgrupFields(Get(sacs'.pgrups, PgrupId(NextLine)))
                = PgrupFields(Get(sacs.pgrups, PgrupId(NextLine)))]_vars

\* The geometry line of the joint named was read earlier in this scan
GeometryLineRead(name) ==
    \E k \in 1..Len(GeometryLines) : JointName(GeometryLines[k]) = name

\* C13: a spring line (JOINT with ELASTI in columns 54-60) for a joint
\* whose geometry line was read earlier in the scan gives that joint the
\* spring the line describes, whatever the length of the joint's name; for
\* a joint that is not known the line changes nothing: no joint, no target
\* id, no node-map entry.
C13_SpringAttachedToEarlierJoint ==
    [][(Scanning /\ IsElastiLine(NextLine)) =>
        /\ GeometryLineRead(JointName(NextLine))
              => /\ Has(sacs'.joints, JointName(NextLine))
                 /\ Get(sacs'.joints, JointName(NextLine)).spring
                      = Elastic(Get(sacs.joints, JointName(NextLine)),
                                NextLine).spring
        /\ ~Has(sacs.joints, JointName(NextLine))
              => (sacs' = sacs /\ pos' = pos + 1)]_vars


---------------------------------------------------------------------------
(* The shell elements write_elements emits                                 *)

\* The positions of the element lines of shells in the input file written
ShellLines ==
    { k \in 1..Len(files.inp) :
        files.inp[k].t = "element" /\ files.inp[k].type \in {"S3", "S4R"} }

\* The target id of the joint named
NodeOf(name) == Get(sacs.joints, name).ABQID

\* The element line e is the emission of plate pl: a triangle as its three
\* joints in declared order, a quadrilateral as A, B and then C and D in
\* either order
EmittedAs(pl, e) ==
    IF pl.jointD = <<>>
    THEN /\ e.type = "S3"
         /\ e.nodes = <<NodeOf(pl.jointA), NodeOf(pl.jointB), NodeOf(pl.jointC)>>
    ELSE /\ e.type = "S4R"
         /\ Len(e.nodes) = 4
         /\ e.nodes[1] = NodeOf(pl.jointA)
         /\ e.nodes[2] = NodeOf(pl.jointB)
         /\ <<e.nodes[3], e.nodes[4]>> \in
               {<<NodeOf(pl.jointC), NodeOf(pl.jointD)>>,
                <<NodeOf(pl.jointD), NodeOf(pl.jointC)>>}

\* The element lines numbered as plate pl is
LinesOf(pl) == { k \in ShellLines : files.inp[k].id = pl.ABQID }

\* write_elements has returned
ElementsReturned ==
    pc \in {"elements", "sets", "beam_sections", "plate_sections", "node_map",
            "element_map", "written", "done"}

\* C14: every shell element line written is the emission of the plate that
\* bears its number: a plate without fourth joint as type S3 with its three
\* joints in declared order, a plate with four joints as type S4R with four
\* node references, A and B first and then C and D in one of the two orders;
\* and once write_elements has returned, every plate of a registered plate
\* group, degenerate triangles included, has exactly one such line.
C14_PlateEmissionKeepsVertices ==
    /\ \A k \in ShellLines :
          \E i \in 1..Len(sacs.plates) :
              /\ sacs.plates[i].v.ABQID = files.inp[k].id
              /\ EmittedAs(sacs.plates[i].v, files.inp[k])
    /\ ElementsReturned =>
          \A i \in 1..Len(sacs.plates) :
              Has(sacs.pgrups, sacs.plates[i].v.group)
                  => Cardinality(LinesOf(sacs.plates[i].v)) = 1

\* write_elements has written a quadrilateral whose last two joints it
\* exchanged and a triangle two of whose corners coincide
C14_Witness ==
    /\ pc = "elements"
    /\ \E k \in ShellLines, i \in 1..Len(sacs.plates) :
          /\ sacs.plates[i].v.ABQID = files.inp[k].id
          /\ files.inp[k].type = "S4R"
          /\ files.inp[k].nodes[3] = NodeOf(sacs.plates[i].v.jointD)
          /\ NodeOf(sacs.plates[i].v.jointD) # NodeOf(sacs.plates[i].v.jointC)
    /\ \E k \in ShellLines, i \in 1..Len(sacs.plates) :
          /\ sacs.plates[i].v.ABQID = files.inp[k].id
          /\ files.inp[k].type = "S3"
          /\ sacs.plates[i].v.jointA = sacs.plates[i].v.jointB


---------------------------------------------------------------------------
(* OrderJoints on its own output                                           *)

\* C15: OrderJoints is idempotent: called on the list it returned for four
\* joints on which it is defined, it returns that list unchanged.
C15_OrderJointsIdempotent ==
    oj_pc = "reapplied" => oj_again = oj_ret

\* The first call exchanged the last two joints, and the second call has
\* returned
C15_Witness ==
    /\ oj_pc = "reapplied"
    /\ oj_ret.jlist = <<oj_arg[1], oj_arg[2], oj_arg[4], oj_arg[3]>>
    /\ oj_again.exc = "none"


---------------------------------------------------------------------------
(* GetFloat on fields that are no numbers                                  *)

\* The field is blank
BlankField(s) == Strip(s) = <<>>

\* The field holds a character no number is written with
NonNumericField(s) ==
    \E i \in 1..Len(s) : s[i] \notin Digits \cup {".", "+", "-", "E", "e", " "}

\* The signs of the field after its first character: a number has at most
\* one, the sign of its exponent
InnerSigns(s) ==
    { i \in 2..Len(Strip(s)) : Strip(s)[i] \in {"+", "-"} }

SeveralExponentSigns(s) == Cardinality(InnerSigns(s)) >= 2

---------------------------------------------------------------------------
(* Stiffener sections                                                      *)

\* The type and the id of a PSTIF line
PstifType(l) == Strip(Slice(l, 6, 9))

PstifId(l) == Strip(Slice(l, 10, 17))

\* C17: a PSTIF line whose type is not ANG registers no section and leaves
\* the section table as it was, and its error is recoverable: the scan goes
\* on with the next line; a PSTIF line of type ANG whose id is not yet
\* registered puts an L section under the id of columns 10-17, and one
\* whose id is registered leaves the section table as it was.
C17_PstifOnlyAngles ==
    [][(Scanning /\ IsPstifLine(NextLine)) =>
        IF PstifType(NextLine) # <<"A", "N", "G">>
        THEN /\ sacs'.sects = sacs.sects
             /\ pc' = "parse"
             /\ pos' = pos + 1
        ELSE IF Has(sacs.sects, PstifId(NextLine))
        THEN sacs'.sects = sacs.sects
        ELSE /\ Has(sacs'.sects, PstifId(NextLine))
             /\ Get(sacs'.sects, PstifId(NextLine)).sect = "L"
             /\ Len(sacs'.sects) = Len(sacs.sects) + 1]_vars


---------------------------------------------------------------------------
(* Unsupported sections                                                    *)

\* A CON section, or a section of a shape code that is not in memberMap
Unsupported(s) == s.cls = "SECT" /\ s.sect \in {"CON", "False"}

\* The group of member mem names a section that is in the table and is CON
ResolvesToCon(mem) ==
    /\ Has(sacs.grups, mem.group)
    /\ Get(sacs.grups, mem.group).section # <<>>
    /\ Has(sacs.sects, Get(sacs.grups, mem.group).section)
    /\ Get(sacs.sects, Get(sacs.grups, mem.group).section).sect = "CON"

IsSupportedEntry(kv) == ~Unsupported(kv.v)

WithoutUnsupported == [sacs EXCEPT !.sects = SelectSeq(@, IsSupportedEntry)]

\* C18: after write_beam_sections a member whose section is CON has no
\* beam-section block and no orientation line and is in the missing-sections
\* set; SECT.abaqus_section_defn and SECT.to_dict raise nothing for a CON
\* section or a section of unknown shape; and SacsStructure.to_dict raises
\* only if it also raises with those sections left out of the table.
C18_ConRejectedNotFatal ==
    /\ AfterBeamSections =>
          \A i \in 1..Len(sacs.members) :
              ResolvesToCon(sacs.members[i].v) =>
                  /\ ~HasSectionBlock(sacs.members[i].k)
                  /\ ~HasOrientation(sacs.members[i].k)
                  /\ IsMissing(sacs.members[i].k)
    /\ \A i \in 1..Len(sacs.sects) :
          Unsupported(sacs.sects[i].v) =>
              /\ abaqus_section_defn(sacs.sects[i].v, sacs.sects[i].k).exc = "none"
              /\ SECT_to_dict(sacs.sects[i].v).exc = "none"
    /\ RaisedIn("to_dict") => to_dict(WithoutUnsupported, dict.arg).exc # "none"


---------------------------------------------------------------------------
(* Load cases                                                              *)

IsLoadcnLine(l) == Slice(l, 0, 6) = <<"L", "O", "A", "D", "C", "N">>

IsLoadlbLine(l) == Slice(l, 0, 6) = <<"L", "O", "A", "D", "L", "B">>

IsLoadLine(l) ==
    /\ ~IsLoadcnLine(l) /\ ~IsLoadlbLine(l)
    /\ Strip(l) # <<"L", "O", "A", "D">> /\ Slice(l, 0, 4) = <<"L", "O", "A", "D">>

\* The coordinate system and the type of the LOAD line are a known pair
IsRecognisedLoad(l) ==
    <<Slice(l, 60, 64), Slice(l, 65, 69)>> \in
        {<<<<"G", "L", "O", "B">>, <<"J", "O", "I", "N">>>>, <<<<"G", "L", "O", "B">>, <<"U", "N", "I", "F">>>>, <<<<"P", "R", "E", "S">>, <<"U", "N", "I", "F">>>>}

\* The LOADCN lines read so far in this scan
LoadcnRead == { k \in 1..pos : IsLoadcnLine(Pad80(input[k])) }

\* The load case the last LOADCN line read named
NamedCase ==
    Strip(Slice(Pad80(input[CHOOSE k \in LoadcnRead :
                                \A j \in LoadcnRead : j <= k]), 7, 12))

\* The step leaves every load case but the one named as it was, and adds
\* and removes no load case
OtherCasesKept(name) ==
    /\ Len(sacs'.loadcases) = Len(sacs.loadcases)
    /\ \A i \in 1..Len(sacs.loadcases) :
          /\ sacs'.loadcases[i].k = sacs.loadcases[i].k
          /\ sacs.loadcases[i].k # name
                => sacs'.loadcases[i].v = sacs.loadcases[i].v

\* C19: once a LOADCN line was read, a LOAD line of a recognised
\* coordinate/type pair appends its load to the loads of the case the last
\* LOADCN line named, a LOADLB line sets the description of that case, and
\* neither touches another case; a LOAD line of an unrecognised pair
\* changes no case.
C19_LoadsGoToTheOpenCase ==
    [][(Scanning /\ LoadcnRead # {}) =>
        /\ (IsLoadLine(NextLine) /\ IsRecognisedLoad(NextLine)) =>
              /\ Has(sacs.loadcases, NamedCase)
              /\ Get(sacs'.loadcases, NamedCase) =
                    [Get(sacs.loadcases, NamedCase) EXCEPT
                        !.loads = Append(@, LOAD(NextLine))]
              /\ OtherCasesKept(NamedCase)
        /\ IsLoadlbLine(NextLine) =>
              /\ Has(sacs.loadcases, NamedCase)
              /\ Get(sacs'.loadcases, NamedCase) =
                    [Get(sacs.loadcases, NamedCase) EXCEPT
                        !.description = Slice(NextLine, 6, 80)]
              /\ OtherCasesKept(NamedCase)
        /\ (IsLoadLine(NextLine) /\ ~IsRecognisedLoad(NextLine)) =>
              sacs'.loadcases = sacs.loadcases]_vars

\* Two loads were added to LC1 around a LOAD line of an unknown type, and
\* one load and a label to LC2
C19_Witness ==
    /\ pc = "parse"
    /\ input = SeveralLoadsDeck
    /\ pos = Len(input)
    /\ Len(Get(sacs.loadcases, <<"L", "C", "1">>).loads) = 2
    /\ Len(Get(sacs.loadcases, <<"L", "C", "2">>).loads) = 1
    /\ Strip(Get(sacs.loadcases, <<"L", "C", "2">>).description) = <<"L", "I", "V", "E">>


---------------------------------------------------------------------------
(* Unit conversion: the factor of each kind of quantity                    *)

\* Powers of ten of the factors: length, area, second moment of area,
\* modulus, yield stress, density, force, displacement-spring rate and
\* rotational-spring rate
LengthExp == -2
AreaExp == -4
SecondMomentExp == -8
ModulusExp == 10
YieldExp == 7
DensityExp == 3
ForceExp == 3
DispSpringExp == 3
RotSpringExp == -1

\* The quantity in columns a..b of line l, of the kind whose factor is 10^k
Quantity(l, a, b, k) == Mul(GetFloat(Slice(l, a, b)), Float(1, k))

\* The quantity, or None when it is zero or blank
QuantityOrNone(l, a, b, k) ==
    IF NonZero(Quantity(l, a, b, k)) THEN Quantity(l, a, b, k) ELSE None

IsJointLine(l) == IsGeometryLine(l)

IsMemberLine(l) ==
    /\ Slice(l, 0, 6) = <<"M", "E", "M", "B", "E", "R">> /\ RStrip(l) # <<"M", "E", "M", "B", "E", "R">>
    /\ Slice(l, 7, 14) # <<"O", "F", "F", "S", "E", "T", "S">>

IsPlateLine(l) ==
    /\ Slice(l, 0, 5) = <<"P", "L", "A", "T", "E">> /\ RStrip(l) # <<"P", "L", "A", "T", "E">>
    /\ Slice(l, 7, 14) # <<"O", "F", "F", "S", "E", "T", "S">>

\* The shape code of the SECT line is PRI: D and E are shear areas
IsPrismatic(l) == Slice(l, 15, 18) = <<"P", "R", "I">>

JointFactors(j, l) ==
    /\ j.x = Add(GetFloat(Slice(l, 11, 18)), Quantity(l, 32, 39, LengthExp))
    /\ j.y = Add(GetFloat(Slice(l, 18, 25)), Quantity(l, 39, 46, LengthExp))
    /\ j.z = Add(GetFloat(Slice(l, 25, 32)), Quantity(l, 46, 53, LengthExp))

SpringFactors(j, l) ==
    j.spring.rates =
        <<Quantity(l, 11, 18, DispSpringExp), Quantity(l, 18, 25, DispSpringExp),
          Quantity(l, 25, 32, DispSpringExp), Quantity(l, 32, 39, RotSpringExp),
          Quantity(l, 39, 46, RotSpringExp), Quantity(l, 46, 53, RotSpringExp)>>

MemberFactors(m, l) ==
    /\ m.density = Quantity(l, 64, 70, DensityExp)
    /\ m.effectiveDiameter = Quantity(l, 72, 78, LengthExp)

PlateFactors(p, l) ==
    /\ p.thickness = Quantity(l, 32, 38, LengthExp)
    /\ p.E = Quantity(l, 47, 54, ModulusExp)
    /\ p.FY = Quantity(l, 59, 64, YieldExp)
    /\ p.density = Quantity(l, 69, 74, DensityExp)

SectFactors(s, l) ==
    /\ s.AX = QuantityOrNone(l, 18, 24, AreaExp)
    /\ s.J = QuantityOrNone(l, 24, 32, SecondMomentExp)
    /\ s.IY = QuantityOrNone(l, 32, 40, SecondMomentExp)
    /\ s.IZ = QuantityOrNone(l, 40, 48, SecondMomentExp)
    /\ s.A = Quantity(l, 49, 55, LengthExp)
    /\ s.B = Quantity(l, 55, 60, LengthExp)
    /\ s.C = Quantity(l, 60, 66, LengthExp)
    /\ s.D = Quantity(l, 66, 71, IF IsPrismatic(l) THEN AreaExp ELSE LengthExp)
    /\ s.E = Quantity(l, 71, 76, IF IsPrismatic(l) THEN AreaExp ELSE LengthExp)

PstifFactors(s, l) ==
    /\ s.A = Quantity(l, 20, 27, LengthExp)
    /\ s.B = Quantity(l, 34, 41, LengthExp)
    /\ s.C = Quantity(l, 41, 48, LengthExp)
    /\ s.D = Quantity(l, 55, 62, LengthExp)

GrupFactors(g, l) ==
    /\ g.OD = Quantity(l, 17, 23, LengthExp)
    /\ g.thickness = Quantity(l, 23, 29, LengthExp)
    /\ g.E = Quantity(l, 30, 35, ModulusExp)
    /\ g.G = Quantity(l, 35, 40, ModulusExp)
    /\ g.FY = Quantity(l, 40, 45, YieldExp)
    /\ g.density = Quantity(l, 70, 76, DensityExp)

PgrupFactors(pg, l) ==
    /\ pg.thickness = Quantity(l, 10, 16, LengthExp)
    /\ pg.E = Quantity(l, 17, 23, ModulusExp)
    /\ pg.FY = Quantity(l, 29, 35, YieldExp)
    /\ pg.Zoffset = Quantity(l, 35, 41, LengthExp)
    /\ pg.density = Quantity(l, 72, 80, DensityExp)

\* The components of a joint load: three forces and three moments
JointLoadFactors(ld, l) ==
    ld.load = <<Quantity(l, 16, 23, ForceExp), Quantity(l, 23, 30, ForceExp),
                Quantity(l, 30, 37, ForceExp), Quantity(l, 37, 44, ForceExp),
                Quantity(l, 45, 52, ForceExp), Quantity(l, 52, 59, ForceExp)>>

\* The record the step has stored under key in the table (as it is after
\* the step), when the step has changed that table
Stored(before, after, key) == before # after /\ Has(after, key)

\* C20: the record a line adds to its table holds each quantity of the line
\* multiplied by the factor of its kind: lengths 1e-2, areas 1e-4 (the
\* shear areas D and E of a prismatic section among them), second moments
\* 1e-8, moduli 1e10, yield stresses 1e7, densities 1e3, forces 1e3,
\* displacement-spring rates 1e3 and rotational-spring rates 0.1.
C20_ContractualFactors ==
    [][Scanning =>
        /\ (IsJointLine(NextLine)
                /\ Stored(sacs.joints, sacs'.joints, JointName(NextLine)))
              => JointFactors(Get(sacs'.joints, JointName(NextLine)), NextLine)
        /\ (IsElastiLine(NextLine)
                /\ Stored(sacs.joints, sacs'.joints, JointName(NextLine)))
              => SpringFactors(Get(sacs'.joints, JointName(NextLine)), NextLine)
        /\ (IsMemberLine(NextLine)
                /\ Stored(sacs.members, sacs'.members, MEMBER(NextLine).ID))
              => MemberFactors(Get(sacs'.members, MEMBER(NextLine).ID), NextLine)
        /\ (IsPlateLine(NextLine)
                /\ Stored(sacs.plates, sacs'.plates, Slice(NextLine, 6, 10)))
              => PlateFactors(Get(sacs'.plates, Slice(NextLine, 6, 10)), NextLine)
        /\ (IsSectLine(NextLine) /\ Slice(NextLine, 15, 18) \in memberMapKeys
                /\ Stored(sacs.sects, sacs'.sects, SectId(NextLine)))
              => SectFactors(Get(sacs'.sects, SectId(NextLine)), NextLine)
        /\ (IsPstifLine(NextLine)
                /\ Stored(sacs.sects, sacs'.sects, PstifId(NextLine)))
              => PstifFactors(Get(sacs'.sects, PstifId(NextLine)), NextLine)
        /\ (IsGrupLine(NextLine)
                /\ Stored(sacs.grups, sacs'.grups, GrupId(NextLine)))
              => GrupFactors(Get(sacs'.grups, GrupId(NextLine)), NextLine)
        /\ (IsPgrupLine(NextLine)
                /\ Stored(sacs.pgrups, sacs'.pgrups, PgrupId(NextLine)))
              => PgrupFactors(Get(sacs'.pgrups, PgrupId(NextLine)), NextLine)
        /\ (IsLoadLine(NextLine) /\ Slice(NextLine, 60, 64) = <<"G", "L", "O", "B">>
                /\ Slice(NextLine, 65, 69) = <<"J", "O", "I", "N">>
                /\ sacs'.loadcases # sacs.loadcases)
              => JointLoadFactors(
                    Get(sacs'.loadcases, sacs.load_case).loads[
                        Len(Get(sacs'.loadcases, sacs.load_case).loads)],
                    NextLine)]_vars


---------------------------------------------------------------------------
(* geom3.py: the cross product and the frames of the beams                 *)

\* Vector3.cross has returned for the operands geo_a and geo_b
Crossed == geo_op = "cross" /\ geo_pc = "returned"

\* C22: Vector3.cross is the right-handed cross product: for all vectors a
\* and b, a.cross(b) equals -(b.cross(a)), is orthogonal to both a and b,
\* and for axis vectors gives (2,0,0) x (0,5,0) = (0,0,10),
\* (2,0,0) x (0,0,3) = (0,-6,0), (0,5,0) x (0,0,3) = (15,0,0).
C22_CrossIsRightHanded ==
    Crossed =>
        /\ geo_cross = Vector3_neg(cross(geo_b, geo_a))
        /\ dot(geo_a, geo_cross) = Zero
        /\ dot(geo_b, geo_cross) = Zero
        /\ (geo_a = TestA /\ geo_b = TestB
                => geo_cross = Vector3(Zero, Zero, Float(10, 0)))
        /\ (geo_a = TestA /\ geo_b = TestC
                => geo_cross = Vector3(Zero, Float(-6, 0), Zero))
        /\ (geo_a = TestB /\ geo_b = TestC
                => geo_cross = Vector3(Float(15, 0), Zero, Zero))

C22_Witness ==
    /\ Crossed
    /\ geo_a = TestA
    /\ geo_b = TestC
    /\ geo_cross = Vector3(Zero, Float(-6, 0), Zero)

GlobalX == Vector3(One, Zero, Zero)

GlobalY == Vector3(Zero, One, Zero)

GlobalZ == Vector3(Zero, Zero, One)

\* The frame (X, Y, Z) of test_beamcsys_rotate
AxisFrame == BeamCSys_init(GlobalX, GlobalY, GlobalZ)

\* rotated_about_x has returned a frame
Turned == geo_op = "rotated_about_x" /\ geo_pc = "returned"

\* The frame (X, Y, Z) has been rotated once, by angle
AxisFrameTurnedBy(angle) ==
    Turned /\ geo_first = AxisFrame /\ geo_turns = 1 /\ geo_angle = angle

\* The frame returned by a rotation has the x of the frame rotated, and its
\* y and z are y cos + z sin and z cos - y sin of that frame, normalised
TurnsAboutX ==
    RotatedAboutXCall /\ geo_pc' = "returned" =>
        /\ Vector3_eq(geo_csys'.x, geo_csys.x)
        /\ Vector3_eq(geo_csys'.y,
               normalise(Vector3_add(Vector3_mul(geo_csys.y, Cos(geo_angle)),
                                     Vector3_mul(geo_csys.z, Sin(geo_angle)))))
        /\ Vector3_eq(geo_csys'.z,
               normalise(VSub(Vector3_mul(geo_csys.z, Cos(geo_angle)),
                              Vector3_mul(geo_csys.y, Sin(geo_angle)))))

\* The examples: (X, Y, Z) by 90 and by 45, and four rotations by 90
TurnExamples ==
    /\ AxisFrameTurnedBy(90)
           => BeamCSys_eq(geo_csys, BeamCSys_init(GlobalX, GlobalZ,
                                                   Vector3_neg(GlobalY)))
    /\ AxisFrameTurnedBy(45)
           => BeamCSys_eq(geo_csys,
                  BeamCSys_init(GlobalX, Vector3_add(GlobalY, GlobalZ),
                                VSub(GlobalZ, GlobalY)))
    /\ Turned /\ geo_angle = 90 /\ geo_turns = 4
           => BeamCSys_eq(geo_csys, geo_first)

\* C21: BeamCSys.rotated_about_x(angle) keeps the x axis and rotates y and z
\* about it by the angle in degrees (y' = y cos + z sin, z' = z cos - y sin):
\* rotating the frame (X, Y, Z) by 90 yields (X, Z, -Y), by 45 yields
\* (X, normalised(Y+Z), normalised(Z-Y)), and four successive rotations by 90
\* return the original frame.
C21_RotatedAboutX == []TurnExamples /\ [][TurnsAboutX]_vars

C21_Witness ==
    /\ Turned /\ geo_angle = 90 /\ geo_turns = 4
    /\ geo_first = AxisFrame
    /\ BeamCSys_eq(geo_csys, AxisFrame)

Unit(v) == Within(dot(v, v), One)

Orthogonal(u, v) == Within(dot(u, v), Zero)

Orthonormal(f) ==
    /\ Unit(f.x) /\ Unit(f.y) /\ Unit(f.z)
    /\ Orthogonal(f.x, f.y) /\ Orthogonal(f.y, f.z) /\ Orthogonal(f.z, f.x)

RightHanded(f) == Vector3_eq(cross(f.x, f.y), f.z)

\* x is within 1e-6 of the global +Z or -Z direction
AlongGlobalZ(x) == Vector3_eq(x, GlobalZ) \/ Vector3_eq(x, Vector3_neg(GlobalZ))

\* z lies in the plane of the beam axis x and global Z
InPlaneWithGlobalZ(x, z) == Within(dot(z, cross(x, GlobalZ)), Zero)

\* from_sacs_points has been called on the endpoints geo_a and geo_b
FromPoints == geo_op = "from_sacs_points" /\ geo_pc # "ready"

\* The frame returned for two distinct endpoints
FrameOfBeam ==
    FromPoints /\ geo_a # geo_b =>
        /\ geo_pc = "returned"
        /\ Vector3_eq(geo_csys.x, normalise(VSub(geo_b, geo_a)))
        /\ Orthonormal(geo_csys)
        /\ RightHanded(geo_csys)
        /\ IF AlongGlobalZ(geo_csys.x)
           THEN Vector3_eq(geo_csys.z, GlobalY)
           ELSE InPlaneWithGlobalZ(geo_csys.x, geo_csys.z)

\* A rotation of a right-handed orthonormal frame returns one, about its x
TurnKeepsFrame ==
    RotatedAboutXCall /\ Orthonormal(geo_csys) /\ RightHanded(geo_csys) =>
        /\ geo_pc' = "returned"
        /\ Vector3_eq(geo_csys'.x, geo_csys.x)
        /\ Orthonormal(geo_csys')
        /\ RightHanded(geo_csys')

\* C26: for every pair of distinct endpoints, BeamCSys.from_sacs_points
\* returns a frame whose x is the normalised vector from start to end, whose
\* x, y, z are mutually orthogonal unit vectors with x cross y = z; when x is
\* within 1e-6 of the global +Z or -Z direction z is the global Y axis,
\* otherwise z lies in the plane of the beam axis and global Z;
\* rotated_about_x preserves x, orthogonality and right-handedness.
C26_FrameOfEveryBeam == []FrameOfBeam /\ [][TurnKeepsFrame]_vars

---------------------------------------------------------------------------
(* inp_writer.py: the two classes of members in write_beam_sections        *)

\* The lines of kind t written for the element set of member m
LinesFor(t, m) ==
    { k \in 1..Len(files.inp) :
        files.inp[k].t = t /\ files.inp[k].elset = MemberElset(m) }

\* The number of times member m is recorded in stru.missing_sect_members
TimesMissing(m) ==
    Cardinality({ k \in 1..Len(sacs.missing_sect_members) :
                    sacs.missing_sect_members[k] = m })

\* One section block, the orientation line right after it, not missing
Assigned(m) ==
    /\ Cardinality(LinesFor("beam_section", m)) = 1
    /\ LinesFor("orientation", m) = { k + 1 : k \in LinesFor("beam_section", m) }
    /\ TimesMissing(m) = 0

\* Neither a section block nor an orientation line, recorded missing once
Unassigned(m) ==
    /\ LinesFor("beam_section", m) = {}
    /\ LinesFor("orientation", m) = {}
    /\ TimesMissing(m) = 1

\* C23: in write_beam_sections every member falls in exactly one of two
\* classes: it receives one beam-section block followed by exactly one
\* orientation line and is not recorded as missing, or it receives neither
\* and is recorded in the missing-sections set exactly once (also when its
\* group is not found at all).
C23_EveryMemberInOneClass ==
    AfterBeamSections =>
        \A i \in 1..Len(sacs.members) :
            Assigned(sacs.members[i].k) \/ Unassigned(sacs.members[i].k)

\* The same for the members whose group is in the groups table
GroupedMembersInOneClass ==
    AfterBeamSections =>
        \A i \in 1..Len(sacs.members) :
            IsGrouped(sacs.members[i]) =>
                Assigned(sacs.members[i].k) \/ Unassigned(sacs.members[i].k)


---------------------------------------------------------------------------
(* sacs_cards.py: LCOMB.to_basic on the reference graph of the combinations *)

EntriesOf(c) == Get(sacs.lcombs, c).loadcases

\* The names to_basic descends into from combination c: those of its
\* entries that are not load-case names and are combination names
Descends(c) ==
    { EntriesOf(c)[i][1] : i \in 1..Len(EntriesOf(c)) }
        \cap { n \in { sacs.lcombs[j].k : j \in 1..Len(sacs.lcombs) } : ~Has(sacs.loadcases, n) }

RECURSIVE ReachedFrom(_)
ReachedFrom(S) ==
    IF UNION { Descends(c) : c \in S } \subseteq S THEN S
    ELSE ReachedFrom(S \cup UNION { Descends(c) : c \in S })

OnCycle(c) == c \in ReachedFrom(Descends(c))

ReachesCycle(c) == \E n \in ReachedFrom({c}) : OnCycle(n)

\* The loads of the entries from the i-th on, each load of a load case
\* scaled by k times the factors on the path to it
RECURSIVE Flattened(_, _, _)
Flattened(entries, i, k) ==
    IF i > Len(entries) THEN <<>>
    ELSE (IF Has(sacs.loadcases, entries[i][1])
          THEN ScaleAll(Get(sacs.loadcases, entries[i][1]).loads,
                        Mul(k, entries[i][2]))
          ELSE IF Has(sacs.lcombs, entries[i][1])
          THEN Flattened(EntriesOf(entries[i][1]), 1, Mul(k, entries[i][2]))
          ELSE <<>>)
         \o Flattened(entries, i + 1, k)

\* The names that are neither, in the order they are met
RECURSIVE Unknown(_, _)
Unknown(entries, i) ==
    IF i > Len(entries) THEN <<>>
    ELSE (IF Has(sacs.loadcases, entries[i][1]) THEN <<>>
          ELSE IF Has(sacs.lcombs, entries[i][1])
          THEN Unknown(EntriesOf(entries[i][1]), 1)
          ELSE <<entries[i][1]>>)
         \o Unknown(entries, i + 1)

BasicReturned == basic.pc = "returned"

\* C24: LCOMB.to_basic terminates and returns a flattened load case exactly
\* when no combination reachable from it, following only the names that are
\* not load-case names and are combination names, lies on a reference cycle;
\* a name that is both a load case and a combination resolves to the load
\* case, a nested combination contributes its loads scaled by the product of
\* the factors along the path, and an unknown name is logged and skipped
\* while the other entries still contribute.
C24_ToBasicOnAcyclicReferences ==
    BasicReturned =>
        /\ basic.exc \in {"none", "RecursionError"}
        /\ basic.exc = "none" <=> ~ReachesCycle(basic.lcm)
        /\ basic.exc = "none" =>
              /\ basic.case.loads = Flattened(EntriesOf(basic.lcm), 1, One)
              /\ basic.warnings = Unknown(EntriesOf(basic.lcm), 1)

\* CMB4 = 1.5 * CMB2 + LC1, CMB2 = 3 * CMB1 + LC9, CMB1 = 2 * LC1 - LC2
C24_Witness ==
    /\ BasicReturned
    /\ basic.lcm = <<"C", "M", "B", "4">>
    /\ basic.exc = "none"
    /\ Len(basic.case.loads) = 3
    /\ basic.case.loads[1].load[1] = Float(90000, 0)
    /\ basic.case.loads[2].load[3] = Float(-22500, 0)
    /\ basic.case.loads[3].load[1] = Float(10000, 0)
    /\ basic.warnings = <<<<"L", "C", "9">>>>


---------------------------------------------------------------------------
(* helpers.py: GetFloat and the fields the cards decode with it            *)

\* The lines parse_sacs_file has consumed, padded as the loop pads them
Consumed == { Pad80(input[i]) : i \in 1..pos }

CardsOf(keyword) ==
    { l \in Consumed : /\ Slice(l, 0, Len(keyword)) = keyword
                       /\ RStrip(l) # keyword
                       /\ Slice(l, 54, 60) # <<"E", "L", "A", "S", "T", "I">> }

\* The field of columns a..b holds no number: it is blank or unparseable
NoValue(l, a, b) == ~PyFloat(RepairExponent(Strip(Slice(l, a, b)))).ok

\* The line l with the field of columns a..b holding 0
WithZero(l, a, b) ==
    [i \in 1..Len(l) |-> IF i = a + 1 THEN "0"
                         ELSE IF a < i /\ i <= b THEN " " ELSE l[i]]

JointNumberColumns == {<<11, 18>>, <<18, 25>>, <<25, 32>>, <<32, 39>>, <<39, 46>>,
                <<46, 53>>}

GrupNumberColumns == {<<17, 23>>, <<23, 29>>}

PgrupNumberColumns == {<<10, 16>>}

SectNumberColumns == {<<49, 55>>, <<55, 60>>, <<60, 66>>, <<66, 71>>, <<71, 76>>}

JointsKeepNoValue ==
    \A l \in CardsOf(<<"J", "O", "I", "N", "T">>) : \A f \in JointNumberColumns :
        NoValue(l, f[1], f[2]) => JOINT(l, 1) # JOINT(WithZero(l, f[1], f[2]), 1)

GrupsKeepNoValue ==
    \A l \in CardsOf(<<"G", "R", "U", "P">>) : \A f \in GrupNumberColumns :
        NoValue(l, f[1], f[2]) => GRUP(l) # GRUP(WithZero(l, f[1], f[2]))

PgrupsKeepNoValue ==
    \A l \in CardsOf(<<"P", "G", "R", "U", "P">>) : \A f \in PgrupNumberColumns :
        NoValue(l, f[1], f[2]) => PGRUP(l) # PGRUP(WithZero(l, f[1], f[2]))

SectsKeepNoValue ==
    \A l \in CardsOf(<<"S", "E", "C", "T">>) : \A f \in SectNumberColumns :
        NoValue(l, f[1], f[2]) => SECT(l) # SECT(WithZero(l, f[1], f[2]))

\* C25: a blank or unparseable numeric field is stored as an absent value
\* that stays distinguishable from a field that parsed as zero: for joint
\* coordinates, group OD and thickness, plate-group thickness and section
\* dimensions, the record decoded from a line with such a field differs
\* from the record decoded from the same line with 0 in that field.
C25_NoValueIsNotZero ==
    /\ JointsKeepNoValue
    /\ GrupsKeepNoValue
    /\ PgrupsKeepNoValue
    /\ SectsKeepNoValue

\* GetFloat itself keeps the two apart: it returns False for a field that
\* holds no number and a float for one that does
GetFloatKeepsNoValue ==
    \A l \in CardsOf(<<"J", "O", "I", "N", "T">>) : \A f \in JointNumberColumns :
        NoValue(l, f[1], f[2]) <=> GetFloat(Slice(l, f[1], f[2])) = False


---------------------------------------------------------------------------
(* part_writer.py: write_iges                                              *)

IgesEnded == pc = "iges" \/ RaisedIn("write_iges")

CornerNames(pl) ==
    IF pl.jointD = <<>> THEN <<pl.jointA, pl.jointB, pl.jointC>>
    ELSE <<pl.jointA, pl.jointB, pl.jointC, pl.jointD>>

PlateJointsResolve ==
    \A i \in 1..Len(sacs.plates) : JointsKnown(sacs, CornerNames(sacs.plates[i].v))

CornerJoints(pl) ==
    [i \in 1..Len(CornerNames(pl)) |-> Get(sacs.joints, CornerNames(pl)[i])]

\* The positions a surface of plate pl is to be built from
ExpectedCorners(pl) ==
    IF pl.jointD = <<>> THEN Positions(CornerJoints(pl))
    ELSE Positions(OrderJoints(CornerJoints(pl)).jlist)

\* The places of the trimmed surfaces among the entities of the file
SurfacePlaces == { i \in 1..Len(files.iges) : files.iges[i].code = 144 }

SurfacePlace(k) ==
    CHOOSE i \in SurfacePlaces :
        Cardinality({ j \in SurfacePlaces : j <= i }) = k

\* The end points of the lines that bound the k-th surface of the file
Corners(k) ==
    LET curve == files.iges[SurfacePlace(k) - 2]
    IN  { SubSeq(files.iges[(curve.params[n + 1] + 1) \div 2].params, 4, 6) :
            n \in 1..curve.params[1] }

SurfaceOfPlate(k) ==
    Corners(k) = { ExpectedCorners(sacs.plates[k].v)[n] :
                     n \in 1..Len(ExpectedCorners(sacs.plates[k].v)) }

\* C27: write_iges completes for every structure whose plate joints all
\* resolve and emits one surface definition per plate, built from the three
\* joint positions of a triangular plate and from the four joint positions
\* in OrderJoints order for a four-joint plate.
C27_OneSurfacePerPlate ==
    (IgesEnded /\ PlateJointsResolve) =>
        /\ pc = "iges"
        /\ Cardinality(SurfacePlaces) = Len(sacs.plates)
        /\ \A k \in 1..Len(sacs.plates) : SurfaceOfPlate(k)

\* write_iges completes exactly for the structures that have no plate, and
\* then the file holds no entity
IgesOnlyWithoutPlates ==
    IgesEnded => /\ pc = "iges" <=> sacs.plates = <<>>
                 /\ files.iges = <<>>

\* With a triangular plate first, or a four-joint plate whose joints
\* OrderJoints accepts, the exception is the ValueError of Iges.plane
IgesRaises ==
    (RaisedIn("write_iges") /\ PlateJointsResolve) =>
        exc.type \in {"ValueError", "ZeroDivisionError"}

IgesRaisedOnTriangle ==
    /\ RaisedIn("write_iges")
    /\ exc.type = "ValueError"
    /\ sacs.plates[1].v.jointD = <<>>


---------------------------------------------------------------------------
(* sacs_cards.py: the aggregate a call of parse_sacs_file returns          *)

\* The lines from the i-th on parsed into stru
RECURSIVE ParsedFrom(_, _, _)
ParsedFrom(r, lines, i) ==
    IF i > Len(lines) \/ r.exc # "none" THEN r
    ELSE ParsedFrom(ParseLine(r.stru, lines[i]), lines, i + 1)

\* The aggregate of the records of the lines of this call's input alone
OwnRecords == ParsedFrom(Ok(SacsStructure), input, 1).stru

Returned == pc = "parsed"

HoldsOwnRecordsOnly ==
    /\ sacs.joints = OwnRecords.joints
    /\ sacs.members = OwnRecords.members
    /\ sacs.plates = OwnRecords.plates
    /\ sacs.sects = OwnRecords.sects
    /\ sacs.grups = OwnRecords.grups
    /\ sacs.pgrups = OwnRecords.pgrups
    /\ sacs.loadcases = OwnRecords.loadcases
    /\ sacs.lcombs = OwnRecords.lcombs
    /\ sacs.nmap = OwnRecords.nmap

NodeMapOfOwnJoints ==
    /\ Len(sacs.nmap) = Len(GeometryLines)
    /\ \A k \in 1..Len(sacs.nmap) : sacs.nmap[k].items[1] = k

\* C28: each call of parse_sacs_file returns an aggregate that holds only
\* the records of that call's input: the joints, members, plates, sections,
\* groups, load cases, combinations and node map are those of its own lines,
\* and the node map has one entry per JOINT geometry line of its own input,
\* entry k - 1 carrying id k.
C28_AggregateOfOwnInput ==
    Returned => HoldsOwnRecordsOnly /\ NodeMapOfOwnJoints

\* The first call in a process does return the records of its own input
FirstCallHoldsOwnRecords ==
    (Returned /\ calls = 1) => HoldsOwnRecordsOnly /\ NodeMapOfOwnJoints

\* The per-instance counter is what a later call starts afresh
LaterCallNumbersFromOne ==
    (Returned /\ calls > 1) =>
        \A k \in 1..Len(GeometryLines) :
            sacs.nmap[Len(sacs.nmap) - Len(GeometryLines) + k].items[1] = k


---------------------------------------------------------------------------
(* inp_writer.py: the element ids of the sets and of the element map       *)

\* The element lines of the deck in the order they were emitted
EmittedElements == SelectSeq(files.inp, LAMBDA line : line.t = "element")

TimesEmitted(id) ==
    Cardinality({ k \in 1..Len(EmittedElements) : EmittedElements[k].id = id })

\* The per-member and per-plate element sets of write_sets
ElementSetLines ==
    { k \in 1..Len(files.inp) :
        /\ files.inp[k].t = "elset"
        /\ files.inp[k].elset[1] \in {"M-", "P-"} }

SetsReferToEmitted ==
    \A k \in ElementSetLines :
        /\ files.inp[k].ids[1] > 0
        /\ TimesEmitted(files.inp[k].ids[1]) = 1

MapRefersToEmitted ==
    \A k \in 1..Len(files.elmap) :
        /\ files.elmap[k][1] > 0
        /\ TimesEmitted(files.elmap[k][1]) = 1

\* The k-th element emitted has id k
EmittedInSequence ==
    \A k \in 1..Len(EmittedElements) : EmittedElements[k].id = k

\* C29: after write_elements, every element id that write_sets writes in a
\* per-member or per-plate element set, and that write_element_map lists,
\* is a positive id emitted in exactly one element block, and the ids of
\* the emitted beams and shells are pairwise distinct and run 1..K in
\* emission order.
C29_SetsAndMapReferToElements ==
    /\ SetsReferToEmitted
    /\ MapRefersToEmitted
    /\ EmittedInSequence

\* The members and plates whose group is registered do get the id of the
\* one element emitted for them
RegisteredAreEmitted ==
    ElementsReturned =>
        /\ \A i \in 1..Len(sacs.members) :
              Has(sacs.grups, sacs.members[i].v.group) =>
                  /\ sacs.members[i].v.ABQID > 0
                  /\ TimesEmitted(sacs.members[i].v.ABQID) = 1
        /\ \A i \in 1..Len(sacs.plates) :
              Has(sacs.pgrups, sacs.plates[i].v.group) =>
                  /\ sacs.plates[i].v.ABQID > 0
                  /\ TimesEmitted(sacs.plates[i].v.ABQID) = 1


---------------------------------------------------------------------------
(* sacs_cards.py: the materials of to_dict                                 *)

DictReturned == pc = "done"

\* The (youngs, poisson, yield, density) of the group of member name and of
\* the plate group of plate name
PropsOfMember(name) ==
    GRUP_to_material_dict(Get(sacs.grups, Get(sacs.members, name).group)).mat

PropsOfPlate(name) ==
    PGRUP_to_material_dict(Get(sacs.pgrups, Get(sacs.plates, name).group)).mat

\* The members and plates of the dict, each with the material exported for
\* it and the properties of its own group
Exported ==
    { [material |-> dict.d.members[i].v.material,
       props |-> PropsOfMember(dict.d.members[i].k)] :
          i \in 1..Len(dict.d.members) }
    \cup
    { [material |-> dict.d.plates[i].v.material,
       props |-> PropsOfPlate(dict.d.plates[i].k)] :
          i \in 1..Len(dict.d.plates) }

SameNameIffSameProps ==
    \A a, b \in Exported : a.material = b.material <=> a.props = b.props

OwnGroupProps ==
    \A a \in Exported : dict.d.materials[a.material] = a.props

\* C30: in to_dict two groups, beam groups or plate groups, get the same
\* exported material name if and only if their (youngs, poisson, yield,
\* density) tuples are equal, and the material of every member and every
\* plate has the properties of its own group or plate group, also when a
\* beam group and a plate group share a name.
C30_MaterialOfOwnGroup ==
    DictReturned => SameNameIffSameProps /\ OwnGroupProps

\* No beam group has the name of a plate group
NamesApart ==
    \A i \in 1..Len(sacs.grups) : ~Has(sacs.pgrups, sacs.grups[i].k)

\* With the names of the beam groups and the plate groups apart both hold
MaterialOfOwnGroupWhenNamesApart ==
    (DictReturned /\ NamesApart) => SameNameIffSameProps /\ OwnGroupProps

SeveralMaterialsExported ==
    DictReturned /\ NamesApart /\ Cardinality(Exported) > 1


=============================================================================
